---- MODULE Spec2Model ----
(***************************************************************************)
(* Ultimate Image Compressor (src/src/compressor.py).                      *)
(*                                                                         *)
(* ImageProcessor.process_file is modelled as a step machine over an       *)
(* abstract filesystem: a function from paths to file contents,            *)
(* whose domain is the set of existing files.  External collaborators      *)
(* (the encoder executables, Pillow, shutil, tempfile) are the             *)
(* environment: every action that calls one draws the call's outcome.      *)
(* Diagnostic logging (log_error) is taken to succeed in Spec and in       *)
(* SpecSearch; it only counts the entries written.                         *)
(***************************************************************************)
EXTENDS Integers, Sequences, FiniteSets, TLC

(***************************************************************************)
(* Bounds of the model.                                                    *)
(***************************************************************************)
\* SpecSearch draws target_kb from 0..MaxTargetKb; with the 1 KB-per-quality
\* encoder every threshold 0..100 (and "everything fits") is covered.
MaxTargetKb == 101

(***************************************************************************)
(* Program constants.                                                      *)
(***************************************************************************)
KEEP_ORIGINAL == "Keep Original"          \* STRINGS["keep_original_format"]
ORIGINAL_FOLDER == "Original Folder"      \* STRINGS["original_folder"]
ALREADY_OPTIMIZED == "Already Optimized"  \* literal of _run_tool
SUCCESS == "Success"
OVERWRITE_FORMAT_ERROR == "Cannot overwrite file when changing its format."
UNSUPPORTED_TYPE == "Unsupported file type"
UNKNOWN_ERROR == "An unknown compression error occurred."

QualityLow == 1        \* low  of find_best_quality
QualityHigh == 100     \* high of find_best_quality
NoBest == -1           \* best_quality before any probe fits
MaxProbes == 8         \* for _ in range(8)
BytesPerKb == 1024     \* target_bytes = target_kb * 1024
BridgeQuality == 98    \* save_options['quality'] of _convert_image
DefaultQuality == 75   \* options.get("quality", 75)
OpaqueAlpha == 255     \* pixel < 255

PNGQUANT == "pngquant.exe"
ZOPFLIPNG == "zopflipng.exe"
CJPEG == "cjpeg.exe"
CWEBP == "cwebp.exe"
Tools == {PNGQUANT, ZOPFLIPNG, CJPEG, CWEBP}

(***************************************************************************)
(* Inputs of one process_file call.                                        *)
(***************************************************************************)
\* File names; "im#" stands for a name holding a character outside ASCII.
Names == {"img", "im#"}
NonAsciiNames == {"im#"}
Exts == {"jpg", "png", "gif"}
Formats == {KEEP_ORIGINAL, "JPEG", "PNG", "WEBP", "ICO"}
Suffixes == {"-tiny", ""}
OutputDirs == {ORIGINAL_FOLDER, "out"}
Qualities == {5, DefaultQuality}
TargetSizes == {1, 3}
DefaultTargetSize == 150                  \* size_var of the form

\* Encoders as size functions of the quality: size(q) = base + step * q.
\* The last one shrinks as quality rises (not monotone in the claims' sense).
Profiles ==
    { [base |-> 0, step |-> 40],
      [base |-> 2000, step |-> 0],
      [base |-> 3000, step |-> -20] }
LinearProfile == [base |-> 0, step |-> BytesPerKb]

EncSize(profile, q) == profile.base + profile.step * q

\* What Image.open yields for a .png input: readable or not, the mode, a
\* 'transparency' entry in img.info, and the samples of the alpha band.
PngImages ==
    { [readable |-> FALSE, mode |-> "RGB", transparency |-> FALSE, alpha |-> {}],
      [readable |-> TRUE, mode |-> "RGB", transparency |-> FALSE, alpha |-> {}],
      [readable |-> TRUE, mode |-> "RGBA", transparency |-> FALSE, alpha |-> {255}],
      [readable |-> TRUE, mode |-> "RGBA", transparency |-> FALSE, alpha |-> {0, 255}],
      [readable |-> TRUE, mode |-> "P", transparency |-> TRUE, alpha |-> {}],
      [readable |-> TRUE, mode |-> "P", transparency |-> FALSE, alpha |-> {}] }
PlainImage == [readable |-> TRUE, mode |-> "RGB", transparency |-> FALSE, alpha |-> {}]

(***************************************************************************)
(* Paths and file contents.                                                *)
(***************************************************************************)
\* A path is its directory, its base name and its extension.
TempDir == "tmp"
InputDir == "in"

\* str.lower() on the format names the form offers and on the extensions.
Lower(s) ==
    CASE s = "JPEG" -> "jpeg"
      [] s = "PNG" -> "png"
      [] s = "WEBP" -> "webp"
      [] s = "ICO" -> "ico"
      [] OTHER -> s

\* A file's bytes: who wrote them, from which path, at which quality, and
\* their length.
FileOf(by, src, q, size) == [by |-> by, src |-> src, q |-> q, size |-> size]
OrigSize == 5000
Original == FileOf("user", "", 0, OrigSize)
EmptyFile == FileOf("mkstemp", "", 0, 0)
PartialFile(src) == FileOf("partial", src, 0, 0)

Exists(files, p) == p \in DOMAIN files
WriteFile(files, p, c) == [x \in (DOMAIN files) \cup {p} |-> IF x = p THEN c ELSE files[x]]
RemoveFile(files, p) == [x \in (DOMAIN files) \ {p} |-> files[x]]

(***************************************************************************)
(* Results: (success flag, message).  A message is its text, the tool it   *)
(* names and the number it carries (an exit code or a quality).            *)
(***************************************************************************)
Msg(text, tool, code) == [text |-> text, tool |-> tool, code |-> code]
Result(ok, msg) == [ok |-> ok, msg |-> msg]
NoResult == Result(FALSE, Msg("", "", 0))

(***************************************************************************)
(* ToolRunner: what subprocess.run did, and _run_tool's classification.    *)
(***************************************************************************)
ExitCodes == {0, 1, 98, 99}
Exited(rc) == [kind |-> "exit", rc |-> rc]
NotFound == [kind |-> "FileNotFoundError", rc |-> 0]
OtherError == [kind |-> "Exception", rc |-> 0]
Outcomes == {Exited(rc) : rc \in ExitCodes} \cup {NotFound, OtherError}
Unknown == [kind |-> "unknown", rc |-> 0]

AlreadyOptimizedCodes == {98, 99}

\* _run_tool without the tool-name test of line 92.
RunToolAnyQuantizer(tool_name, outcome) ==
    IF outcome.kind = "exit"
    THEN IF outcome.rc \in AlreadyOptimizedCodes
         THEN Result(TRUE, Msg(ALREADY_OPTIMIZED, "", 0))
         ELSE IF outcome.rc # 0
              THEN Result(FALSE, Msg("Error from", tool_name, outcome.rc))
              ELSE Result(TRUE, Msg(SUCCESS, "", 0))
    ELSE IF outcome.kind = "FileNotFoundError"
         THEN Result(FALSE, Msg("Tool not found", tool_name, 0))
         ELSE Result(FALSE, Msg("str(e)", "", 0))

\* Lines 88-102.
RunTool(tool_name, outcome) ==
    IF outcome.kind = "exit"
    THEN IF tool_name = PNGQUANT /\ outcome.rc \in AlreadyOptimizedCodes
         THEN Result(TRUE, Msg(ALREADY_OPTIMIZED, "", 0))
         ELSE IF outcome.rc # 0
              THEN Result(FALSE, Msg("Error from", tool_name, outcome.rc))
              ELSE Result(TRUE, Msg(SUCCESS, "", 0))
    ELSE IF outcome.kind = "FileNotFoundError"
         THEN Result(FALSE, Msg("Tool not found", tool_name, 0))
         ELSE Result(FALSE, Msg("str(e)", "", 0))

\* _run_tool logs once on each of its three failure branches.
RunToolLogs(tool_name, outcome) ==
    IF RunTool(tool_name, outcome).ok THEN 0 ELSE 1

(***************************************************************************)
(* is_png_fully_opaque.                                                    *)
(***************************************************************************)
\* is_png_fully_opaque without the palette test of lines 106-107.
is_png_opaque_ignoring_palette(img) ==
    IF ~img.readable THEN FALSE
    ELSE IF img.alpha # {} THEN ~(\E pixel \in img.alpha : pixel < OpaqueAlpha)
    ELSE TRUE

\* Lines 103-110.  The alpha band is present iff it has samples.
is_png_fully_opaque(img) ==
    IF ~img.readable THEN FALSE
    ELSE IF img.mode = "P" /\ img.transparency THEN FALSE
    ELSE IF img.alpha # {} THEN ~(\E pixel \in img.alpha : pixel < OpaqueAlpha)
    ELSE TRUE

(***************************************************************************)
(* State.                                                                  *)
(***************************************************************************)
VARIABLES
    file_path,              \* the input path: [dir, base, ext]
    options,                \* the options dictionary of the call
    image,                  \* what Image.open yields for the input
    fs,                     \* the filesystem: path -> contents, existing files only
    pc,                     \* position in process_file / find_best_quality / compress_png
    target_format, is_converting_format, final_output_path, temp_output_path,
    current_path, temp_files, quality, is_success, message,
    low, high, best_quality, iter, temp_out_name,    \* find_best_quality
    temp_path, quant, exc,  \* compress_png: quantizer path and result, exception in flight
    result,                 \* what compress_png returns
    ret,                    \* what process_file returns
    installed, toolEnv,     \* the tools directory and each tool's behaviour, once observed
    profile, env_free,      \* the encoder's size function; free: every probe draws anew
    calls, probed,          \* tool runs outside the search; the search's probes
    logged, warned,         \* log_error entries, messagebox warnings
    log_ok,                 \* the log file can be opened (setup_logging, line 19)
    log_raised,             \* a log_error call has raised
    \* the batch loops (start_compression, main)
    entry,                  \* "gui" or "headless"
    files_to_process,       \* the list of files (self.files of the form)
    idx,                    \* how many files the loop has taken from the list
    invoked,                \* the files process_file was called with, in order
    success_msgs, error_msgs,   \* the two accumulators
    reports,                \* the aggregate reports shown
    outcomes,               \* per call that returned: the file, its final path, the flag
    batch_pc,               \* position in the loop
    \* the estimation debounce of the form
    after_id,               \* self.after_id: 0 is None
    timers,                 \* the pending after() callbacks: [id, due]
    now,                    \* the time, in milliseconds
    comp_mode,              \* self.comp_mode
    selected,               \* the listbox has a selection
    requests,               \* the on_quality_change events so far: [at, id]
    workers,                \* the estimation threads now running (their timer ids)
    started,                \* the estimation runs started so far: [id, at, running]
    posts,                  \* the update_estimated_size_label calls Tk has queued
    displayed,              \* estimated_size_var: the text, and the run it came from
    \* one estimation thread, _run_estimation_in_thread
    est_pc,                 \* its position
    est_quality, est_target_format, est_current_path,
    est_temp_files,         \* temp_files, once bound
    est_bound,              \* line 369 has run: current_path and temp_files are bound
    est_temp_out_name, est_is_success, est_msg,
    est_steps               \* the staging steps and tool runs of the thread, in order

batch == <<entry, files_to_process, idx, invoked, success_msgs, error_msgs, reports,
           outcomes, batch_pc>>
estimation == <<est_pc, est_quality, est_target_format, est_current_path,
                est_temp_files, est_bound, est_temp_out_name, est_is_success, est_msg,
                est_steps>>
gui == <<after_id, timers, now, comp_mode, selected, requests, workers, started, posts,
         displayed, estimation>>
\* What process_file never touches: its arguments and its callers' state.
inputs == <<file_path, options, image, profile, env_free, log_ok, batch, gui>>
locals == <<target_format, is_converting_format, final_output_path, temp_output_path,
            current_path, temp_files, quality, is_success, message>>
search == <<low, high, best_quality, iter, temp_out_name, probed>>
pnglocals == <<temp_path, quant, exc, result>>
env == <<installed, toolEnv>>
seen == <<calls, logged, warned, log_raised>>
vars == <<inputs, fs, pc, locals, search, pnglocals, ret, env, seen>>

Path(dir, base, ext) == [dir |-> dir, base |-> base, ext |-> ext]
NoPath == Path("", "", "")
TempPath(base, ext) == Path(TempDir, base, ext)

(***************************************************************************)
(* The tools directory and the tools, as the call observes them: a tool    *)
(* is present or absent, and behaves one way, for the whole call (unless   *)
(* env_free, where every observation is drawn anew).                       *)
(***************************************************************************)
PresenceChoices(t) ==
    IF env_free \/ installed[t] = "unknown" THEN {"yes", "no"} ELSE {installed[t]}
OutcomeChoices(t) ==
    IF env_free \/ toolEnv[t] = Unknown THEN Outcomes ELSE {toolEnv[t]}
Observed(f, t, v) == IF env_free THEN f ELSE [f EXCEPT ![t] = v]

\* compress_jpeg / compress_webp: get_tool_path, then _run_tool.
EncoderTool(fmt) == IF fmt = "webp" THEN CWEBP ELSE CJPEG
compress_encoder(tool, present, outcome) ==
    IF present = "no" THEN Result(FALSE, Msg("not found.", tool, 0))
    ELSE RunTool(tool, outcome)
\* get_tool_path logs and warns when the tool is absent; _run_tool logs a failure.
EncoderLogs(tool, present, outcome) ==
    IF present = "no" THEN 1 ELSE RunToolLogs(tool, outcome)
EncoderWarns(present) == IF present = "no" THEN 1 ELSE 0
EncoderWrote(present, outcome) == present = "yes" /\ outcome = Exited(0)

(***************************************************************************)
(* log_error, lines 26-31.  The first call opens the log file              *)
(* (logging.basicConfig); when that raises, the flag of line 30 is never   *)
(* set and every later call tries, and raises, again.  A write to an open  *)
(* log does not raise (the logging module reports handler errors itself).  *)
(***************************************************************************)
LogFails(entries) == ~log_ok /\ entries > 0

(***************************************************************************)
(* process_file, lines 181-189: the target format and the conflict check.  *)
(***************************************************************************)
ExplicitFormat(opts) == opts.format # KEEP_ORIGINAL

\* Line 186-187: the opaque-PNG auto-conversion applies.
AutoConverts(path, opts, img) ==
    /\ opts.auto_convert_png
    /\ Lower(path.ext) = "png"
    /\ ~ExplicitFormat(opts)
    /\ is_png_fully_opaque(img)

TargetFormat(path, opts, img) ==
    IF AutoConverts(path, opts, img) THEN "jpeg"
    ELSE IF ExplicitFormat(opts) THEN Lower(opts.format)
    ELSE Lower(path.ext)

IsConvertingFormat(path, opts, img) ==
    ExplicitFormat(opts) \/ AutoConverts(path, opts, img)

\* is_png_fully_opaque logs when the image cannot be opened.
OpacityCheckLogs(path, opts, img) ==
    IF opts.auto_convert_png /\ Lower(path.ext) = "png" /\ ~ExplicitFormat(opts)
       /\ ~img.readable
    THEN 1 ELSE 0

\* The conflict check without the auto-conversion of line 187.
OverwriteConflictExplicitOnly(path, opts, img) ==
    opts.overwrite /\ ExplicitFormat(opts)

\* Line 188.
OverwriteConflict(path, opts, img) ==
    opts.overwrite /\ IsConvertingFormat(path, opts, img)

\* Lines 190-192.
FinalOutputPath(path, opts, fmt) ==
    IF opts.overwrite THEN path
    ELSE Path(IF opts.output_dir # ORIGINAL_FOLDER THEN opts.output_dir ELSE path.dir,
              path.base \o opts.suffix, fmt)

\* Lines 181-189.  Both log_error calls here are outside the try of line 195.
DeriveTarget ==
    /\ pc = "start"
    /\ IF LogFails(OpacityCheckLogs(file_path, options, image)
                   + (IF OverwriteConflict(file_path, options, image) THEN 1 ELSE 0))
       THEN /\ pc' = "raised"
            /\ log_raised' = TRUE
            /\ UNCHANGED <<target_format, is_converting_format, ret, logged>>
       ELSE /\ target_format' = TargetFormat(file_path, options, image)
            /\ is_converting_format' = IsConvertingFormat(file_path, options, image)
            /\ IF OverwriteConflict(file_path, options, image)
               THEN /\ ret' = Result(FALSE, Msg(OVERWRITE_FORMAT_ERROR, "", 0))
                    /\ logged' = logged + OpacityCheckLogs(file_path, options, image) + 1
                    /\ pc' = "done"
               ELSE /\ logged' = logged + OpacityCheckLogs(file_path, options, image)
                    /\ pc' = "mktemp"
                    /\ UNCHANGED ret
            /\ UNCHANGED log_raised
    /\ UNCHANGED <<inputs, fs, final_output_path, temp_output_path, current_path,
                   temp_files, quality, is_success, message, search, pnglocals, env,
                   calls, warned>>

\* Lines 190-194.  NamedTemporaryFile creates the file, or raises outside the try.
MakeTempOutput ==
    /\ pc = "mktemp"
    /\ final_output_path' = FinalOutputPath(file_path, options, target_format)
    /\ \E created \in BOOLEAN :
        IF created
        THEN /\ temp_output_path' = TempPath("tmpout", target_format)
             /\ fs' = WriteFile(fs, TempPath("tmpout", target_format), EmptyFile)
             /\ current_path' = file_path
             /\ temp_files' = <<TempPath("tmpout", target_format)>>
             /\ pc' = "safe_copy"
        ELSE /\ pc' = "raised"
             /\ UNCHANGED <<fs, temp_output_path, current_path, temp_files>>
    /\ UNCHANGED <<inputs, target_format, is_converting_format, quality, is_success,
                   message, search, pnglocals, ret, env, seen>>

(***************************************************************************)
(* Staging, lines 196-208.                                                 *)
(***************************************************************************)
\* shutil.copy2 and the copy shutil.move falls back to: done, failed before
\* the destination was opened, or failed after the destination was written.
CopyOutcomes == {"ok", "fail_clean", "fail_dirty"}

IsAscii(path) == path.base \notin NonAsciiNames

\* _safe_copy_for_processing, lines 159-167, and lines 196-197.
SafeCopy ==
    /\ pc = "safe_copy"
    /\ IF IsAscii(current_path)
       THEN /\ pc' = "resize"
            /\ UNCHANGED <<fs, current_path, temp_files>>
       ELSE LET safe_path == TempPath("temp_uuid", current_path.ext) IN
            \E o \in CopyOutcomes :
                CASE o = "ok" ->
                        /\ fs' = WriteFile(fs, safe_path, fs[current_path])
                        /\ current_path' = safe_path
                        /\ temp_files' = Append(temp_files, safe_path)
                        /\ pc' = "resize"
                  [] o = "fail_clean" ->
                        /\ pc' = "except"
                        /\ UNCHANGED <<fs, current_path, temp_files>>
                  [] o = "fail_dirty" ->
                        /\ fs' = WriteFile(fs, safe_path, PartialFile(current_path))
                        /\ pc' = "except"
                        /\ UNCHANGED <<current_path, temp_files>>
    /\ UNCHANGED <<inputs, target_format, is_converting_format, final_output_path,
                   temp_output_path, quality, is_success, message, search, pnglocals,
                   ret, env, seen>>

\* Line 198 without the tests on the width and the height.
ResizeRequestedWhenEnabled(opts) == opts.resize_enabled
ResizeRequested(opts) == opts.resize_enabled /\ opts.width > 0 /\ opts.height > 0

\* Image.open(...).save(...) raises on an undecodable image, and may fail otherwise.
PillowOutcomes(img) == IF img.readable THEN {TRUE, FALSE} ELSE {FALSE}

\* Lines 198-203.
Resize ==
    /\ pc = "resize"
    /\ IF ResizeRequested(options)
       THEN LET temp_resized == TempPath("resized_uuid", current_path.ext) IN
            \E saved \in PillowOutcomes(image) :
                IF saved
                THEN /\ fs' = WriteFile(fs, temp_resized,
                                        FileOf("resize", current_path.base, 0, OrigSize))
                     /\ current_path' = temp_resized
                     /\ temp_files' = Append(temp_files, temp_resized)
                     /\ pc' = "convert"
                ELSE /\ pc' = "except"
                     /\ UNCHANGED <<fs, current_path, temp_files>>
       ELSE /\ pc' = "convert"
            /\ UNCHANGED <<fs, current_path, temp_files>>
    /\ UNCHANGED <<inputs, target_format, is_converting_format, final_output_path,
                   temp_output_path, quality, is_success, message, search, pnglocals,
                   ret, env, seen>>

ConversionNeeded(path, fmt) == Lower(path.ext) # fmt

\* _convert_image, lines 168-178, and lines 205-208.
Convert ==
    /\ pc = "convert"
    /\ IF ConversionNeeded(current_path, target_format)
       THEN LET temp_converted == TempPath("converted_uuid", target_format) IN
            \E saved \in PillowOutcomes(image) :
                IF saved /\ target_format \in {"jpeg", "jpg", "png", "webp", "ico"}
                THEN /\ fs' = WriteFile(fs, temp_converted,
                                FileOf("convert", current_path.base,
                                       IF target_format \in {"jpeg", "jpg"}
                                       THEN BridgeQuality ELSE 0, OrigSize))
                     /\ current_path' = temp_converted
                     /\ temp_files' = Append(temp_files, temp_converted)
                     /\ pc' = "encode"
                ELSE /\ pc' = "except"
                     /\ UNCHANGED <<fs, current_path, temp_files>>
       ELSE /\ pc' = "encode"
            /\ UNCHANGED <<fs, current_path, temp_files>>
    /\ UNCHANGED <<inputs, target_format, is_converting_format, final_output_path,
                   temp_output_path, quality, is_success, message, search, pnglocals,
                   ret, env, seen>>

(***************************************************************************)
(* find_best_quality, lines 119-134.                                       *)
(***************************************************************************)
FallbackQuality == 1      \* return ... else 1

TargetBytesAsMegabytes(target_kb) == target_kb * BytesPerKb * BytesPerKb
TargetBytes(target_kb) == target_kb * BytesPerKb
MidpointAtLow(lo, hi) == lo
Midpoint(lo, hi) == (lo + hi) \div 2
FitsStrictly(size, target_kb) == size < TargetBytes(target_kb)
Fits(size, target_kb) == size <= TargetBytes(target_kb)
SearchContinues(i, lo, hi) == i < MaxProbes /\ ~(lo > hi)
BestWithoutFallback(best) == best
BestOrFallback(best) == IF best # NoBest THEN best ELSE FallbackQuality

\* The size of what the encoder writes at quality q.
ProbeSizes(q) ==
    IF env_free
    THEN {TargetBytes(options.target_size), TargetBytes(options.target_size) + 1}
    ELSE {EncSize(profile, q)}

\* One run of _run_tool: the command, what the process did, what was returned.
Call(tool, src, dst, qlo, qhi, outcome) ==
    [tool |-> tool, src |-> src, dst |-> dst, qlo |-> qlo, qhi |-> qhi,
     out |-> outcome, res |-> RunTool(tool, outcome)]

\* Line 120-121.
StartSearch ==
    /\ low' = QualityLow
    /\ high' = QualityHigh
    /\ best_quality' = NoBest
    /\ iter' = 0
    /\ probed' = <<>>
    /\ UNCHANGED temp_out_name

\* Lines 123-131: one probe, up to the finally clause.
FbqProbe ==
    /\ pc = "fbq"
    /\ SearchContinues(iter, low, high)
    /\ LET q == Midpoint(low, high)
           tool == EncoderTool(target_format)
           tmp == TempPath("probe" \o ToString(iter), "tmp")
       IN \E v \in PresenceChoices(tool) :
          \E o \in (IF v = "no" THEN {Unknown} ELSE OutcomeChoices(tool)) :
          \E size \in ProbeSizes(q) :
            LET r == compress_encoder(tool, v, o)
                fs1 == WriteFile(fs, tmp,
                                 IF EncoderWrote(v, o)
                                 THEN FileOf(tool, current_path.base, q, size)
                                 ELSE EmptyFile)
                encoded == r.ok /\ Exists(fs1, tmp)
                within == encoded /\ Fits(fs1[tmp].size, options.target_size)
            IN /\ fs' = fs1
               /\ temp_out_name' = tmp
               /\ installed' = Observed(installed, tool, v)
               /\ toolEnv' = IF v = "no" THEN toolEnv ELSE Observed(toolEnv, tool, o)
               /\ IF LogFails(EncoderLogs(tool, v, o))
                  THEN \* log_error raises inside compress_func: the probe is
                       \* abandoned, the finally clause of line 132 runs.
                       /\ exc' = TRUE
                       /\ log_raised' = TRUE
                       /\ UNCHANGED <<probed, low, high, best_quality, logged, warned>>
                  ELSE /\ probed' = Append(probed, [q |-> q, ok |-> encoded,
                                                    size |-> fs1[tmp].size])
                       /\ IF encoded
                          THEN IF within
                               THEN /\ best_quality' = q
                                    /\ low' = q + 1
                                    /\ UNCHANGED high
                               ELSE /\ high' = q - 1
                                    /\ UNCHANGED <<best_quality, low>>
                          ELSE /\ high' = q - 1
                               /\ UNCHANGED <<best_quality, low>>
                       /\ logged' = logged + EncoderLogs(tool, v, o)
                       /\ warned' = warned + EncoderWarns(v)
                       /\ UNCHANGED <<exc, log_raised>>
    /\ pc' = "fbq_finally"
    /\ UNCHANGED <<inputs, locals, iter, temp_path, quant, result, ret, calls>>

\* Lines 132-133.
FbqFinally ==
    /\ pc = "fbq_finally"
    /\ fs' = IF Exists(fs, temp_out_name) THEN RemoveFile(fs, temp_out_name) ELSE fs
    /\ iter' = iter + 1
    /\ pc' = IF exc THEN "except" ELSE "fbq"
    /\ UNCHANGED <<inputs, locals, low, high, best_quality, temp_out_name, probed,
                   pnglocals, ret, env, seen>>

\* Lines 122-123 and 134: the loop ends and the quality is returned (to
\* process_file, lines 212 and 221).
FbqReturn ==
    /\ pc = "fbq"
    /\ ~SearchContinues(iter, low, high)
    /\ quality' = BestOrFallback(best_quality)
    /\ pc' = "encode_final"
    /\ UNCHANGED <<inputs, fs, target_format, is_converting_format, final_output_path,
                   temp_output_path, current_path, temp_files, is_success, message,
                   search, pnglocals, ret, env, seen>>

(***************************************************************************)
(* process_file, lines 210-227: the encoder dispatch.                      *)
(***************************************************************************)
\* The dispatch with the search applied to PNG as well.
SearchFormatsAndPng == {"jpeg", "jpg", "webp", "png"}
\* Lines 211-212, 220-221: the targets whose branch runs the search in size mode.
SearchFormats == {"jpeg", "jpg", "webp"}

\* Lines 210-212, 215, 220-221, 224-227.
Encode ==
    /\ pc = "encode"
    /\ quality' = options.quality
    /\ CASE target_format \in SearchFormats ->
              /\ IF options.mode = "size"
                 THEN StartSearch /\ pc' = "fbq"
                 ELSE pc' = "encode_final" /\ UNCHANGED search
              /\ is_success' = FALSE
              /\ message' = Msg(UNKNOWN_ERROR, "", 0)
              /\ UNCHANGED <<fs, ret>>
         [] target_format = "png" ->
              /\ pc' = "png"
              /\ is_success' = FALSE
              /\ message' = Msg(UNKNOWN_ERROR, "", 0)
              /\ UNCHANGED <<fs, ret, search>>
         [] target_format = "ico" ->
              \E saved \in PillowOutcomes(image) :
                 IF saved
                 THEN /\ fs' = WriteFile(fs, temp_output_path,
                                         FileOf("ico", current_path.base, 0, OrigSize))
                      /\ is_success' = TRUE
                      /\ message' = Msg("-> ICO.", "", 0)
                      /\ pc' = "finalize"
                      /\ UNCHANGED <<ret, search>>
                 ELSE /\ is_success' = FALSE
                      /\ message' = Msg(UNKNOWN_ERROR, "", 0)
                      /\ pc' = "except"
                      /\ UNCHANGED <<fs, ret, search>>
         [] OTHER ->
              /\ ret' = Result(FALSE, Msg(UNSUPPORTED_TYPE, "", 0))
              /\ is_success' = FALSE
              /\ message' = Msg(UNKNOWN_ERROR, "", 0)
              /\ pc' = "finally"
              /\ UNCHANGED <<fs, search>>
    /\ UNCHANGED <<inputs, target_format, is_converting_format, final_output_path,
                   temp_output_path, current_path, temp_files, pnglocals, env, seen>>

EncodedMessage(fmt, q) ==
    IF fmt = "webp" THEN Msg("-> WEBP, quality", "", q) ELSE Msg("-> JPEG, quality", "", q)

\* Lines 213-214 and 222-223, with compress_jpeg / compress_webp (111-118).
EncodeFinal ==
    /\ pc = "encode_final"
    /\ LET tool == EncoderTool(target_format) IN
       \E v \in PresenceChoices(tool) :
       \E o \in (IF v = "no" THEN {Unknown} ELSE OutcomeChoices(tool)) :
          LET r == compress_encoder(tool, v, o) IN
          /\ fs' = IF EncoderWrote(v, o)
                   THEN WriteFile(fs, temp_output_path,
                                  FileOf(tool, current_path.base, quality,
                                         EncSize(profile, quality)))
                   ELSE fs
          /\ calls' = IF v = "no" THEN calls
                      ELSE Append(calls, Call(tool, current_path, temp_output_path,
                                              quality, quality, o))
          /\ installed' = Observed(installed, tool, v)
          /\ toolEnv' = IF v = "no" THEN toolEnv ELSE Observed(toolEnv, tool, o)
          /\ IF LogFails(EncoderLogs(tool, v, o))
             THEN /\ log_raised' = TRUE
                  /\ pc' = "except"
                  /\ UNCHANGED <<is_success, message, logged, warned>>
             ELSE /\ is_success' = r.ok
                  /\ message' = IF r.ok THEN EncodedMessage(target_format, quality)
                                ELSE r.msg
                  /\ logged' = logged + EncoderLogs(tool, v, o)
                  /\ warned' = warned + EncoderWarns(v)
                  /\ pc' = "finalize"
                  /\ UNCHANGED log_raised
    /\ UNCHANGED <<inputs, target_format, is_converting_format, final_output_path,
                   temp_output_path, current_path, temp_files, quality, search,
                   pnglocals, ret>>

(***************************************************************************)
(* compress_png, lines 135-158, called at line 217 with in_path =          *)
(* current_path and out_path = temp_output_path.                           *)
(***************************************************************************)
\* Line 216: the quality range handed to the quantizer.
QualityRangeLow(q) == IF q > 10 THEN q - 10 ELSE 0

\* Line 138.
QuantPath(out_path, use_zopfli) ==
    IF ~use_zopfli THEN out_path
    ELSE TempPath("quant_" \o out_path.base, out_path.ext)

\* Lines 218-219.
PngMessage(r) ==
    IF r.ok /\ r.msg.text = ALREADY_OPTIMIZED THEN Msg("is already optimized.", "", 0)
    ELSE IF r.ok THEN Msg("compressed to PNG.", "", 0)
    ELSE r.msg

\* The further-compression tool cannot succeed on a source that does not exist.
ZopfliChoices(files, src) ==
    IF Exists(files, src) THEN OutcomeChoices(ZOPFLIPNG)
    ELSE OutcomeChoices(ZOPFLIPNG) \ {Exited(0)}

\* Lines 136-142 (and, on the early return of line 137, lines 217-219).
PngQuantize ==
    /\ pc = "png"
    /\ \E vq \in PresenceChoices(PNGQUANT), vz \in PresenceChoices(ZOPFLIPNG) :
        LET missing == (IF vq = "no" THEN 1 ELSE 0) + (IF vz = "no" THEN 1 ELSE 0)
            tp == QuantPath(temp_output_path, options.max_png)
        IN
        /\ installed' = Observed(Observed(installed, PNGQUANT, vq), ZOPFLIPNG, vz)
        /\ IF missing > 0
           THEN IF LogFails(missing)
                THEN \* get_tool_path raises at line 136, before compress_png's try.
                     /\ log_raised' = TRUE
                     /\ pc' = "except"
                     /\ UNCHANGED <<fs, temp_path, quant, exc, result, is_success,
                                    message, toolEnv, calls, logged, warned>>
                ELSE /\ result' = Result(FALSE, Msg("PNG tools not found.", "", 0))
                     /\ is_success' = FALSE
                     /\ message' = Msg("PNG tools not found.", "", 0)
                     /\ logged' = logged + missing
                     /\ warned' = warned + missing
                     /\ pc' = "finalize"
                     /\ UNCHANGED <<fs, temp_path, quant, exc, toolEnv, calls, log_raised>>
           ELSE \E o \in OutcomeChoices(PNGQUANT) :
                LET r == RunTool(PNGQUANT, o) IN
                /\ temp_path' = tp
                /\ toolEnv' = Observed(toolEnv, PNGQUANT, o)
                /\ calls' = Append(calls, Call(PNGQUANT, current_path, tp,
                                               QualityRangeLow(quality), quality, o))
                /\ fs' = IF o = Exited(0)
                         THEN WriteFile(fs, tp, FileOf(PNGQUANT, current_path.base,
                                                      quality, OrigSize \div 2))
                         ELSE fs
                /\ IF LogFails(RunToolLogs(PNGQUANT, o))
                   THEN /\ exc' = TRUE
                        /\ log_raised' = TRUE
                        /\ pc' = "png_finally"
                        /\ UNCHANGED <<quant, result, logged>>
                   ELSE /\ quant' = r
                        /\ logged' = logged + RunToolLogs(PNGQUANT, o)
                        /\ IF ~r.ok
                           THEN result' = r /\ pc' = "png_finally"
                           ELSE IF r.msg.text = ALREADY_OPTIMIZED
                           THEN pc' = "png_already_optimized" /\ UNCHANGED result
                           ELSE IF options.max_png
                           THEN pc' = "png_zopfli" /\ UNCHANGED result
                           ELSE /\ result' = Result(TRUE, Msg(SUCCESS, "", 0))
                                /\ pc' = "png_finally"
                        /\ UNCHANGED <<exc, log_raised>>
                /\ UNCHANGED <<is_success, message, warned>>
    /\ UNCHANGED <<inputs, target_format, is_converting_format, final_output_path,
                   temp_output_path, current_path, temp_files, quality, search, ret>>

\* Lines 146-149 and 152-155: get_tool_path again, then the further-compression
\* tool from src into the output path; its result is compress_png's.
RunZopfli(src) ==
    \E v \in PresenceChoices(ZOPFLIPNG) :
        IF v = "no"
        THEN /\ installed' = Observed(installed, ZOPFLIPNG, v)
             /\ IF LogFails(1)
                THEN /\ exc' = TRUE
                     /\ log_raised' = TRUE
                     /\ UNCHANGED <<result, logged, warned>>
                ELSE /\ result' = Result(FALSE, Msg("not found.", ZOPFLIPNG, 0))
                     /\ logged' = logged + 1
                     /\ warned' = warned + 1
                     /\ UNCHANGED <<exc, log_raised>>
             /\ UNCHANGED <<fs, toolEnv, calls>>
        ELSE \E o \in ZopfliChoices(fs, src) :
             /\ installed' = Observed(installed, ZOPFLIPNG, v)
             /\ toolEnv' = Observed(toolEnv, ZOPFLIPNG, o)
             /\ calls' = Append(calls, Call(ZOPFLIPNG, src, temp_output_path, 0, 0, o))
             /\ fs' = IF o = Exited(0)
                      THEN WriteFile(fs, temp_output_path,
                                     FileOf(ZOPFLIPNG, src.base, 0, OrigSize \div 4))
                      ELSE fs
             /\ IF LogFails(RunToolLogs(ZOPFLIPNG, o))
                THEN /\ exc' = TRUE
                     /\ log_raised' = TRUE
                     /\ UNCHANGED <<result, logged>>
                ELSE /\ result' = RunTool(ZOPFLIPNG, o)
                     /\ logged' = logged + RunToolLogs(ZOPFLIPNG, o)
                     /\ UNCHANGED <<exc, log_raised>>
             /\ UNCHANGED warned

\* The source of the further-compression pass after "Already Optimized" (line 148).
AlreadyOptimizedSourceQuantPath(in_path, quant_path) == quant_path
AlreadyOptimizedSource(in_path, quant_path) == in_path

\* Line 150: what compress_png returns after copying the original.
AlreadyOptimizedCopyResultSuccess(quant_msg) == Result(TRUE, Msg(SUCCESS, "", 0))
AlreadyOptimizedCopyResult(quant_msg) == Result(TRUE, quant_msg)

\* Lines 143-150.
PngAlreadyOptimized ==
    /\ pc = "png_already_optimized"
    /\ IF ~options.max_png
       THEN \E o \in CopyOutcomes :
            /\ CASE o = "ok" ->
                      /\ fs' = WriteFile(fs, temp_output_path, fs[current_path])
                      /\ result' = AlreadyOptimizedCopyResult(quant.msg)
                      /\ UNCHANGED exc
                 [] o = "fail_clean" ->
                      /\ exc' = TRUE
                      /\ UNCHANGED <<fs, result>>
                 [] o = "fail_dirty" ->
                      /\ fs' = WriteFile(fs, temp_output_path, PartialFile(current_path.base))
                      /\ exc' = TRUE
                      /\ UNCHANGED result
            /\ UNCHANGED <<env, seen>>
       ELSE RunZopfli(AlreadyOptimizedSource(current_path, temp_path))
    /\ pc' = "png_finally"
    /\ UNCHANGED <<inputs, locals, search, temp_path, quant, ret>>

\* Lines 151-155.
PngZopfli ==
    /\ pc = "png_zopfli"
    /\ RunZopfli(temp_path)
    /\ pc' = "png_finally"
    /\ UNCHANGED <<inputs, locals, search, temp_path, quant, ret>>

\* Lines 157-158, then lines 217-219 of process_file.
PngFinally ==
    /\ pc = "png_finally"
    /\ fs' = IF options.max_png /\ Exists(fs, temp_path) THEN RemoveFile(fs, temp_path)
             ELSE fs
    /\ IF exc
       THEN pc' = "except" /\ UNCHANGED <<is_success, message>>
       ELSE /\ is_success' = result.ok
            /\ message' = PngMessage(result)
            /\ pc' = "finalize"
    /\ UNCHANGED <<inputs, target_format, is_converting_format, final_output_path,
                   temp_output_path, current_path, temp_files, quality, search,
                   pnglocals, ret, env, seen>>

(***************************************************************************)
(* process_file, lines 228-235: promotion, the handler, the finalizer.     *)
(***************************************************************************)
RemoveFirst(seq, x) ==
    LET i == CHOOSE k \in 1..Len(seq) : seq[k] = x /\ \A j \in 1..(k - 1) : seq[j] # x
    IN SubSeq(seq, 1, i - 1) \o SubSeq(seq, i + 1, Len(seq))

\* Line 229 without the move.
MovesOutputNever(msg) == FALSE
\* Line 229: the output is moved unless the message is the already-optimized one.
MovesOutput(msg) == msg # Msg("is already optimized.", "", 0)

\* Lines 228-231.  shutil.move renames, or copies and unlinks when it cannot
\* rename (another volume, an existing destination on Windows).
Finalize ==
    /\ pc = "finalize"
    /\ IF is_success
       THEN IF MovesOutput(message)
            THEN \E o \in CopyOutcomes :
                 CASE o = "ok" ->
                        /\ fs' = WriteFile(RemoveFile(fs, temp_output_path),
                                           final_output_path, fs[temp_output_path])
                        /\ temp_files' = RemoveFirst(temp_files, temp_output_path)
                        /\ ret' = Result(TRUE, message)
                        /\ pc' = "finally"
                   [] o = "fail_clean" ->
                        /\ pc' = "except"
                        /\ UNCHANGED <<fs, temp_files, ret>>
                   [] o = "fail_dirty" ->
                        /\ fs' = WriteFile(fs, final_output_path,
                                           PartialFile(temp_output_path.base))
                        /\ pc' = "except"
                        /\ UNCHANGED <<temp_files, ret>>
            ELSE /\ temp_files' = RemoveFirst(temp_files, temp_output_path)
                 /\ ret' = Result(TRUE, message)
                 /\ pc' = "finally"
                 /\ UNCHANGED fs
       ELSE /\ ret' = Result(FALSE, message)
            /\ pc' = "finally"
            /\ UNCHANGED <<fs, temp_files>>
    /\ UNCHANGED <<inputs, target_format, is_converting_format, final_output_path,
                   temp_output_path, current_path, quality, is_success, message,
                   search, pnglocals, env, seen>>

\* Line 232.
Except ==
    /\ pc = "except"
    /\ IF LogFails(1)
       THEN \* log_error raises inside the handler: the finally clause runs and
            \* the exception leaves process_file.
            /\ log_raised' = TRUE
            /\ pc' = "finally_raise"
            /\ UNCHANGED <<ret, logged>>
       ELSE /\ ret' = Result(FALSE, Msg("An unexpected error occurred", "", 0))
            /\ logged' = logged + 1
            /\ pc' = "finally"
            /\ UNCHANGED log_raised
    /\ UNCHANGED <<inputs, fs, locals, search, pnglocals, env, calls, warned>>

RECURSIVE RemoveAll(_, _)
RemoveAll(files, seq) ==
    IF seq = <<>> THEN files
    ELSE RemoveAll(IF Exists(files, Head(seq)) THEN RemoveFile(files, Head(seq)) ELSE files,
                   Tail(seq))

\* A tracked file that still exists.
Removable(files, seq) == {i \in 1..Len(seq) : Exists(files, seq[i])}

\* Lines 233-235, and the return.  os.remove deletes each tracked file that
\* exists; when it raises (the first time it is called), the exception leaves
\* process_file in place of the pending return.
Finally ==
    /\ pc \in {"finally", "finally_raise"}
    /\ \E removed \in (IF Removable(fs, temp_files) = {} THEN {TRUE} ELSE BOOLEAN) :
        IF removed
        THEN /\ fs' = RemoveAll(fs, temp_files)
             /\ pc' = IF pc = "finally" THEN "done" ELSE "raised"
        ELSE pc' = "raised" /\ UNCHANGED fs
    /\ UNCHANGED <<inputs, locals, search, pnglocals, ret, env, seen>>

(***************************************************************************)
(* Specifications.                                                         *)
(***************************************************************************)
OptionsOf(ow, fmt, auto, rz, mode, q, ts, mp, sfx, od) ==
    [overwrite |-> ow, format |-> fmt, auto_convert_png |-> auto,
     resize_enabled |-> rz.enabled, width |-> rz.width, height |-> rz.height,
     mode |-> mode, quality |-> q, target_size |-> ts, max_png |-> mp,
     suffix |-> sfx, output_dir |-> od]

Resizes ==
    { [enabled |-> FALSE, width |-> 4, height |-> 3],
      [enabled |-> TRUE, width |-> 4, height |-> 3],
      [enabled |-> TRUE, width |-> 0, height |-> 3] }

\* Options nothing reads are kept at the form's defaults: suffix and folder
\* under overwrite, the target size in quality mode, the quality in size mode,
\* the maximum-compression flag when the target is not PNG; auto-conversion
\* is switched off for inputs that are not PNG (line 329).
OptionSets(ext) ==
    { OptionsOf(ow, fmt, auto, rz, mode, q, ts, mp, sfx, od) :
        ow \in BOOLEAN, fmt \in Formats, auto \in BOOLEAN, rz \in Resizes,
        mode \in {"quality", "size"}, q \in Qualities,
        ts \in TargetSizes \cup {DefaultTargetSize}, mp \in BOOLEAN,
        sfx \in Suffixes, od \in OutputDirs }

Canonical(ext, o, img) ==
    /\ TargetFormat(Path(InputDir, "", ext), o, img) # "png" => ~o.max_png
    /\ o.overwrite => (o.suffix = "-tiny" /\ o.output_dir = ORIGINAL_FOLDER)
    /\ ext # "png" => ~o.auto_convert_png
    /\ o.mode = "quality" => o.target_size = DefaultTargetSize
    /\ o.mode = "size" => (o.target_size \in TargetSizes /\ o.quality = DefaultQuality)

\* No batch loop is running.
NoBatch ==
    /\ entry = "none"
    /\ files_to_process = <<>>
    /\ idx = 0
    /\ invoked = <<>>
    /\ success_msgs = <<>>
    /\ error_msgs = <<>>
    /\ reports = <<>>
    /\ outcomes = <<>>
    /\ batch_pc = "none"

\* estimated_size_var: its text and the estimation run the text came from.
Shown(text, of) == [text |-> text, of |-> of]

\* No estimation thread is modelled step by step.
NoEstimation ==
    /\ est_pc = "idle"
    /\ est_quality = 0
    /\ est_target_format = ""
    /\ est_current_path = NoPath
    /\ est_temp_files = <<>>
    /\ est_bound = FALSE
    /\ est_temp_out_name = NoPath
    /\ est_is_success = FALSE
    /\ est_msg = Msg("", "", 0)
    /\ est_steps = <<>>

\* The form as __init__ leaves it (line 240: after_id = None), nothing scheduled.
NoGui ==
    /\ after_id = 0
    /\ timers = {}
    /\ now = 0
    /\ comp_mode = "quality"
    /\ selected = FALSE
    /\ requests = <<>>
    /\ workers = {}
    /\ started = <<>>
    /\ posts = <<>>
    /\ displayed = Shown("", 0)
    /\ NoEstimation

InitLocals ==
    /\ is_converting_format = FALSE
    /\ is_success = FALSE
    /\ message = Msg("", "", 0)
    /\ low = QualityLow
    /\ high = QualityHigh
    /\ best_quality = NoBest
    /\ iter = 0
    /\ temp_out_name = NoPath
    /\ probed = <<>>
    /\ temp_path = NoPath
    /\ quant = NoResult
    /\ exc = FALSE
    /\ result = NoResult
    /\ ret = NoResult
    /\ calls = <<>>
    /\ logged = 0
    /\ warned = 0
    /\ log_raised = FALSE

InitCall ==
    /\ \E n \in Names, e \in Exts : file_path = Path(InputDir, n, e)
    /\ options \in OptionSets(file_path.ext)
    /\ image \in (IF file_path.ext = "png" /\ options.auto_convert_png
                   THEN PngImages ELSE {PlainImage})
    /\ Canonical(file_path.ext, options, image)
    /\ profile \in (IF options.mode = "size"
                        /\ TargetFormat(file_path, options, image) \in SearchFormats
                     THEN Profiles ELSE {LinearProfile})
    /\ env_free = FALSE
    /\ fs = (file_path :> Original)
    /\ pc = "start"
    /\ installed = [t \in Tools |-> "unknown"]
    /\ toolEnv = [t \in Tools |-> Unknown]
    /\ target_format = ""
    /\ final_output_path = NoPath
    /\ temp_output_path = NoPath
    /\ current_path = NoPath
    /\ temp_files = <<>>
    /\ quality = 0
    /\ InitLocals
    /\ NoBatch
    /\ NoGui

\* One process_file call with a log file that can be opened.
Init == InitCall /\ log_ok = TRUE

Next ==
    \/ DeriveTarget
    \/ MakeTempOutput
    \/ SafeCopy
    \/ Resize
    \/ Convert
    \/ Encode
    \/ FbqProbe
    \/ FbqFinally
    \/ FbqReturn
    \/ EncodeFinal
    \/ PngQuantize
    \/ PngAlreadyOptimized
    \/ PngZopfli
    \/ PngFinally
    \/ Finalize
    \/ Except
    \/ Finally

Spec == Init /\ [][Next]_vars

\* One process_file call where the log file cannot be opened (the program's
\* folder is not writable): setup_logging raises in every log_error call.
InitLog == InitCall /\ log_ok = FALSE

SpecLog == InitLog /\ [][Next]_vars

(***************************************************************************)
(* find_best_quality on its own: the call of line 212 / 221 with every     *)
(* target budget 0..MaxTargetKb.  The encoder is either one of the size    *)
(* functions, present and never failing, or free: each probe may find the  *)
(* tool absent, fail in any way, or write a file that fits or does not.    *)
(***************************************************************************)
SearchOptions(ts) ==
    OptionsOf(FALSE, KEEP_ORIGINAL, FALSE, [enabled |-> FALSE, width |-> 0, height |-> 0],
              "size", DefaultQuality, ts, FALSE, "-tiny", ORIGINAL_FOLDER)

InitSearch ==
    /\ file_path = Path(InputDir, "img", "jpg")
    /\ env_free \in BOOLEAN
    /\ options \in {SearchOptions(ts) : ts \in (IF env_free THEN {1} ELSE 0..MaxTargetKb)}
    /\ image = PlainImage
    /\ profile \in (IF env_free THEN {LinearProfile} ELSE Profiles \cup {LinearProfile})
    /\ pc = "fbq"
    /\ installed = [t \in Tools |-> IF env_free THEN "unknown" ELSE "yes"]
    /\ toolEnv = [t \in Tools |-> IF env_free THEN Unknown ELSE Exited(0)]
    /\ target_format \in {"jpg", "webp"}
    /\ final_output_path = Path(InputDir, "img-tiny", target_format)
    /\ temp_output_path = TempPath("tmpout", target_format)
    /\ current_path = IF target_format = "jpg" THEN file_path
                      ELSE TempPath("converted_uuid", target_format)
    /\ temp_files = IF target_format = "jpg" THEN <<temp_output_path>>
                    ELSE <<temp_output_path, current_path>>
    /\ fs = [p \in {file_path} \cup {temp_files[i] : i \in 1..Len(temp_files)} |->
               IF p = file_path THEN Original
               ELSE IF p = temp_output_path THEN EmptyFile
               ELSE FileOf("convert", file_path.base, 0, OrigSize)]
    /\ quality = options.quality
    /\ log_ok = TRUE
    /\ InitLocals
    /\ NoBatch
    /\ NoGui

NextSearch ==
    \/ FbqProbe
    \/ FbqFinally
    \/ FbqReturn

SpecSearch == InitSearch /\ [][NextSearch]_vars

(***************************************************************************)
(* The batch loops: start_compression (lines 405-422) and the headless     *)
(* branch of main (lines 453-468).  Each calls process_file once per file  *)
(* of the list; the call itself is the step machine above.                 *)
(***************************************************************************)
MaxFiles == 2

BatchFiles == {Path(InputDir, "img", e) : e \in Exts \cup {"jpeg"}}
BatchImages ==
    { PlainImage,
      [readable |-> TRUE, mode |-> "RGBA", transparency |-> FALSE, alpha |-> {0, 255}] }

\* Lines 454-455: the options of the headless run.
HeadlessOptions ==
    OptionsOf(FALSE, KEEP_ORIGINAL, TRUE, [enabled |-> FALSE, width |-> 0, height |-> 0],
              "quality", DefaultQuality, DefaultTargetSize, FALSE, "-tiny", ORIGINAL_FOLDER)

\* Lines 407-411: the options read from the form; here the form asks to
\* overwrite the originals, everything else as it opens.
FormOptions ==
    OptionsOf(TRUE, KEEP_ORIGINAL, FALSE, [enabled |-> FALSE, width |-> 0, height |-> 0],
              "quality", DefaultQuality, DefaultTargetSize, FALSE, "-tiny", ORIGINAL_FOLDER)

BatchOptions(e) == IF e = "headless" THEN HeadlessOptions ELSE FormOptions

\* The form may also ask for a conversion of every file to one format,
\* written beside the originals.
ConvertingFormOptions ==
    OptionsOf(FALSE, "JPEG", FALSE, [enabled |-> FALSE, width |-> 0, height |-> 0],
              "quality", DefaultQuality, DefaultTargetSize, FALSE, "-tiny", ORIGINAL_FOLDER)

BatchOptionSets(e) ==
    IF e = "headless" THEN {BatchOptions(e)} ELSE {BatchOptions(e), ConvertingFormOptions}

\* The lists of distinct files, one to MaxFiles long.
RECURSIVE FileLists(_)
FileLists(n) ==
    IF n = 0 THEN {<<>>}
    ELSE LET shorter == FileLists(n - 1) IN
         shorter \cup {Append(l, f) : l \in {x \in shorter : Len(x) = n - 1},
                                       f \in BatchFiles}

Distinct(l) == \A i, j \in 1..Len(l) : i # j => l[i] # l[j]

\* Line 413 / 457: the next file of the list is handed to process_file.
BatchCall ==
    /\ batch_pc = "loop"
    /\ idx < Len(files_to_process)
    /\ idx' = idx + 1
    /\ file_path' = files_to_process[idx + 1]
    /\ invoked' = Append(invoked, files_to_process[idx + 1])
    /\ image' \in (IF files_to_process[idx + 1].ext = "png" THEN BatchImages
                    ELSE {PlainImage})
    /\ batch_pc' = "in_call"
    /\ pc' = "start"
    /\ target_format' = ""
    /\ is_converting_format' = FALSE
    /\ final_output_path' = NoPath
    /\ temp_output_path' = NoPath
    /\ current_path' = NoPath
    /\ temp_files' = <<>>
    /\ quality' = 0
    /\ is_success' = FALSE
    /\ message' = Msg("", "", 0)
    /\ temp_path' = NoPath
    /\ quant' = NoResult
    /\ exc' = FALSE
    /\ result' = NoResult
    /\ ret' = NoResult
    /\ calls' = <<>>
    /\ UNCHANGED <<options, profile, env_free, log_ok, fs, search, env, logged, warned,
                   log_raised,
                   entry, files_to_process, success_msgs, error_msgs, reports,
                   outcomes, gui>>

\* Line 415 / 458-459: the outcome goes to one of the two accumulators.
BatchCollect ==
    /\ batch_pc = "in_call"
    /\ pc = "done"
    /\ IF ret.ok
       THEN success_msgs' = Append(success_msgs, ret.msg) /\ UNCHANGED error_msgs
       ELSE error_msgs' = Append(error_msgs, ret.msg) /\ UNCHANGED success_msgs
    /\ outcomes' = Append(outcomes, [file |-> file_path, path |-> final_output_path,
                                     ok |-> ret.ok, msg |-> ret.msg.text])
    /\ batch_pc' = "loop"
    /\ pc' = "idle"
    /\ UNCHANGED <<file_path, options, image, profile, env_free, log_ok, fs, locals,
                   search, pnglocals, ret, env, seen, entry, files_to_process, idx,
                   invoked, reports, gui>>

\* An exception leaving process_file leaves the loop too: neither loop has a
\* handler.  The headless run ends in the handler of lines 470-473, the
\* form's callback in Tk's report of the exception.
BatchAbort ==
    /\ batch_pc = "in_call"
    /\ pc = "raised"
    /\ batch_pc' = "aborted"
    /\ logged' = IF entry = "headless" /\ log_ok THEN logged + 1 ELSE logged
    /\ UNCHANGED <<file_path, options, image, profile, env_free, log_ok, fs, pc, locals,
                   search, pnglocals, ret, env, calls, warned, log_raised, entry, files_to_process, idx,
                   invoked, success_msgs, error_msgs, reports, outcomes, gui>>

\* Lines 417-421 / 461-467: the report after the loop.
ReportOf(successes, failures) ==
    IF failures > 0 THEN <<[kind |-> "error", successes |-> successes, failures |-> failures]>>
    ELSE IF successes > 0
    THEN <<[kind |-> "info", successes |-> successes, failures |-> failures]>>
    ELSE <<>>

BatchReport ==
    /\ batch_pc = "loop"
    /\ ~(idx < Len(files_to_process))
    /\ reports' = reports \o ReportOf(Len(success_msgs), Len(error_msgs))
    /\ batch_pc' = "finished"
    /\ UNCHANGED <<file_path, options, image, profile, env_free, log_ok, fs, pc, locals,
                   search, pnglocals, ret, env, seen, entry, files_to_process, idx,
                   invoked, success_msgs, error_msgs, outcomes, gui>>

InitBatch ==
    /\ entry \in {"gui", "headless"}
    /\ files_to_process \in {l \in FileLists(MaxFiles) : Len(l) > 0 /\ Distinct(l)}
    /\ idx = 0
    /\ invoked = <<>>
    /\ success_msgs = <<>>
    /\ error_msgs = <<>>
    /\ reports = <<>>
    /\ outcomes = <<>>
    /\ batch_pc = "loop"
    /\ options \in BatchOptionSets(entry)
    /\ file_path = NoPath
    /\ image = PlainImage
    /\ profile = LinearProfile
    /\ env_free = FALSE
    /\ log_ok = TRUE
    /\ fs = [p \in {files_to_process[i] : i \in 1..Len(files_to_process)} |-> Original]
    /\ pc = "idle"
    /\ installed = [t \in Tools |-> "unknown"]
    /\ toolEnv = [t \in Tools |-> Unknown]
    /\ target_format = ""
    /\ final_output_path = NoPath
    /\ temp_output_path = NoPath
    /\ current_path = NoPath
    /\ temp_files = <<>>
    /\ quality = 0
    /\ InitLocals
    /\ NoGui

\* In quality mode and without the maximum pass, the search and the
\* further-compression step are never reached.
NextBatch ==
    \/ BatchCall
    \/ BatchCollect
    \/ BatchAbort
    \/ BatchReport
    \/ DeriveTarget
    \/ MakeTempOutput
    \/ SafeCopy
    \/ Resize
    \/ Convert
    \/ Encode
    \/ EncodeFinal
    \/ PngQuantize
    \/ PngAlreadyOptimized
    \/ PngFinally
    \/ Finalize
    \/ Except
    \/ Finally

SpecBatch == InitBatch /\ [][NextBatch]_vars

(***************************************************************************)
(* The estimation debounce of the form: on_quality_change (lines 342-345), *)
(* toggle_comp_widgets (334-339), on_file_select (346-355) and             *)
(* start_estimation_thread (356-359).  All of them run on Tk's main        *)
(* thread, one at a time; an after() callback runs once its delay has      *)
(* passed, at or after its due time.  The estimation thread is a step of   *)
(* its own: it ends whenever its pipeline ends.                            *)
(***************************************************************************)
DebounceMs == 500         \* self.after(500, ...)
TickMs == 250
MaxTime == 1500
MaxRequests == 3

\* Line 344: after_cancel of the id kept in self.after_id, when there is one.
CancelPendingNever(pending, id) == pending
CancelPending(pending, id) == IF id # 0 THEN {t \in pending : t.id # id} ELSE pending

\* Lines 343-345, as the event numbered id at the present time.
on_quality_change(id) ==
    /\ IF comp_mode = "quality"
       THEN /\ timers' = CancelPending(timers, after_id) \cup
                            {[id |-> id, due |-> now + DebounceMs]}
            /\ after_id' = id
            /\ requests' = Append(requests, [at |-> now, id |-> id])
       ELSE /\ timers' = CancelPending(timers, after_id)
            /\ requests' = Append(requests, [at |-> now, id |-> 0])
            /\ UNCHANGED after_id

IdleCall ==
    UNCHANGED <<file_path, options, image, profile, env_free, log_ok, batch, fs, pc,
                locals, search, pnglocals, ret, env, seen, estimation>>

\* The quality variable is written, or the auto-convert box is clicked.
OnQualityChange ==
    /\ Len(requests) < MaxRequests
    /\ on_quality_change(Len(requests) + 1)
    /\ UNCHANGED <<now, comp_mode, selected, workers, started, posts, displayed>>
    /\ IdleCall

\* Lines 334-339: the mode is switched; on_quality_change runs when the new
\* mode is the quality mode, and the estimate is blanked otherwise.
ToggleCompWidgets ==
    /\ Len(requests) < MaxRequests
    /\ \E m \in {"quality", "size"} :
        /\ comp_mode' = m
        /\ IF m = "quality"
           THEN /\ timers' = CancelPending(timers, after_id) \cup
                                {[id |-> Len(requests) + 1, due |-> now + DebounceMs]}
                /\ after_id' = Len(requests) + 1
                /\ requests' = Append(requests, [at |-> now, id |-> Len(requests) + 1])
                /\ UNCHANGED displayed
           ELSE /\ displayed' = Shown("", 0)
                /\ UNCHANGED <<timers, after_id, requests>>
    /\ UNCHANGED <<now, selected, workers, started, posts>>
    /\ IdleCall

\* Lines 346-355: a file of the list is selected.
OnFileSelect ==
    /\ Len(requests) < MaxRequests
    /\ selected' = TRUE
    /\ IF comp_mode = "quality"
       THEN on_quality_change(Len(requests) + 1)
       ELSE UNCHANGED <<timers, after_id, requests>>
    /\ UNCHANGED <<now, comp_mode, workers, started, posts, displayed>>
    /\ IdleCall

\* Lines 356-359: the timer runs start_estimation_thread, which shows "..."
\* and starts a thread whenever a file is selected.
StartEstimationThread ==
    /\ \E t \in timers :
        /\ t.due <= now
        /\ timers' = timers \ {t}
        /\ IF selected
           THEN /\ workers' = workers \cup {t.id}
                /\ started' = Append(started, [id |-> t.id, at |-> now, running |-> workers])
                /\ displayed' = Shown("...", 0)
           ELSE UNCHANGED <<workers, started, displayed>>
    /\ UNCHANGED <<after_id, now, comp_mode, selected, requests, posts>>
    /\ IdleCall

\* Lines 360-400: an estimation thread reaches its end, having posted its
\* result (lines 392-397): a size, or -1 for an error.  The result carries
\* nothing that tells which run it belongs to; the model tags it to tell.
EstimationEnds ==
    /\ \E w \in workers :
        /\ workers' = workers \ {w}
        /\ \E failed \in BOOLEAN :
             posts' = Append(posts, [of |-> w, size |-> IF failed THEN -1 ELSE w])
    /\ UNCHANGED <<after_id, timers, now, comp_mode, selected, requests, started,
                   displayed>>
    /\ IdleCall

\* Lines 401-404, run by Tk on the main thread for each posted result, in the
\* order they were posted.
update_estimated_size_label(post) ==
    IF post.size >= 0 THEN Shown("~KB", post.of) ELSE Shown("Error", post.of)

UpdateEstimatedSizeLabel ==
    /\ posts # <<>>
    /\ displayed' = update_estimated_size_label(Head(posts))
    /\ posts' = Tail(posts)
    /\ UNCHANGED <<after_id, timers, now, comp_mode, selected, requests, workers,
                   started>>
    /\ IdleCall

Tick ==
    /\ now < MaxTime
    /\ now' = now + TickMs
    /\ UNCHANGED <<after_id, timers, comp_mode, selected, requests, workers, started,
                   posts, displayed>>
    /\ IdleCall

InitGui ==
    /\ after_id = 0
    /\ timers = {}
    /\ now = 0
    /\ comp_mode = "quality"
    /\ selected \in BOOLEAN
    /\ requests = <<>>
    /\ workers = {}
    /\ started = <<>>
    /\ posts = <<>>
    /\ displayed = Shown("", 0)
    /\ NoEstimation
    /\ NoBatch
    /\ file_path = Path(InputDir, "img", "jpg")
    /\ options = FormOptions
    /\ image = PlainImage
    /\ profile = LinearProfile
    /\ env_free = FALSE
    /\ log_ok = TRUE
    /\ fs = (file_path :> Original)
    /\ pc = "idle"
    /\ installed = [t \in Tools |-> "unknown"]
    /\ toolEnv = [t \in Tools |-> Unknown]
    /\ target_format = ""
    /\ final_output_path = NoPath
    /\ temp_output_path = NoPath
    /\ current_path = NoPath
    /\ temp_files = <<>>
    /\ quality = 0
    /\ InitLocals

NextGui ==
    \/ OnQualityChange
    \/ ToggleCompWidgets
    \/ OnFileSelect
    \/ StartEstimationThread
    \/ EstimationEnds
    \/ UpdateEstimatedSizeLabel
    \/ Tick

SpecGui == InitGui /\ [][NextGui]_vars

(***************************************************************************)
(* One estimation thread, _run_estimation_in_thread (lines 360-400), step  *)
(* by step.  It reads the form's variables, stages the selected file as    *)
(* process_file does, encodes into a temporary file and posts the size to  *)
(* the main thread.                                                        *)
(***************************************************************************)
\* What quality_var may hold when the thread reads it.
EstQualities == {0, 5, DefaultQuality, 101}

\* Everything but the filesystem, the tools, the log and the thread's own state.
EstOutside ==
    UNCHANGED <<file_path, options, image, profile, env_free, log_ok, batch, after_id,
                timers, now, comp_mode, selected, requests, workers, started, displayed,
                pc, locals, search, pnglocals, ret, calls>>

\* A staging step, recorded like a tool run.
Step(name, src, dst) ==
    [tool |-> name, src |-> src, dst |-> dst, qlo |-> 0, qhi |-> 0, out |-> Unknown,
     res |-> NoResult]

\* Lines 362-363: IndexError without a selection, ValueError outside 1..100.
EstRead ==
    /\ est_pc = "read"
    /\ IF ~selected \/ ~(1 <= options.quality /\ options.quality <= 100)
       THEN est_pc' = "expected" /\ UNCHANGED est_quality
       ELSE est_quality' = options.quality /\ est_pc' = "derive"
    /\ UNCHANGED <<fs, env, logged, warned, log_raised, posts, est_target_format,
                   est_current_path, est_temp_files, est_bound, est_temp_out_name,
                   est_is_success, est_msg, est_steps>>
    /\ EstOutside

\* Lines 365-368: the target format of the estimation.
EstimateTargetFormat(path, opts, img) ==
    IF opts.auto_convert_png /\ Lower(path.ext) = "png" /\ is_png_fully_opaque(img)
    THEN "jpeg"
    ELSE IF ExplicitFormat(opts) THEN Lower(opts.format)
    ELSE Lower(path.ext)

\* is_png_fully_opaque logs when the image cannot be opened.
EstOpacityCheckLogs(path, opts, img) ==
    IF opts.auto_convert_png /\ Lower(path.ext) = "png" /\ ~img.readable THEN 1 ELSE 0

\* Lines 364-369.
EstDeriveTarget ==
    /\ est_pc = "derive"
    /\ IF LogFails(EstOpacityCheckLogs(file_path, options, image))
       THEN /\ log_raised' = TRUE
            /\ est_pc' = "unexpected"
            /\ UNCHANGED <<logged, est_target_format, est_current_path, est_temp_files,
                           est_bound>>
       ELSE /\ est_target_format' = EstimateTargetFormat(file_path, options, image)
            /\ logged' = logged + EstOpacityCheckLogs(file_path, options, image)
            /\ est_current_path' = file_path
            /\ est_temp_files' = <<>>
            /\ est_bound' = TRUE
            /\ est_pc' = "safe_copy"
            /\ UNCHANGED log_raised
    /\ UNCHANGED <<fs, env, warned, posts, est_quality, est_temp_out_name,
                   est_is_success, est_msg, est_steps>>
    /\ EstOutside

\* Lines 370-371, with _safe_copy_for_processing (159-167).
EstSafeCopy ==
    /\ est_pc = "safe_copy"
    /\ IF IsAscii(est_current_path)
       THEN /\ est_pc' = "resize"
            /\ UNCHANGED <<fs, est_current_path, est_temp_files, est_steps>>
       ELSE LET safe_path == TempPath("temp_uuid", est_current_path.ext) IN
            \E o \in CopyOutcomes :
                CASE o = "ok" ->
                        /\ fs' = WriteFile(fs, safe_path, fs[est_current_path])
                        /\ est_current_path' = safe_path
                        /\ est_temp_files' = Append(est_temp_files, safe_path)
                        /\ est_steps' = Append(est_steps,
                                               Step("safe_copy", est_current_path, safe_path))
                        /\ est_pc' = "resize"
                  [] o = "fail_clean" ->
                        /\ est_pc' = "unexpected"
                        /\ UNCHANGED <<fs, est_current_path, est_temp_files, est_steps>>
                  [] o = "fail_dirty" ->
                        /\ fs' = WriteFile(fs, safe_path, PartialFile(est_current_path))
                        /\ est_pc' = "unexpected"
                        /\ UNCHANGED <<est_current_path, est_temp_files, est_steps>>
    /\ UNCHANGED <<env, logged, warned, log_raised, posts, est_quality,
                   est_target_format, est_bound, est_temp_out_name, est_is_success,
                   est_msg>>
    /\ EstOutside

\* Lines 372-375: the resized copy carries the original extension.
EstResize ==
    /\ est_pc = "resize"
    /\ IF ResizeRequested(options)
       THEN LET temp_resized == TempPath("temp_estimate_uuid", file_path.ext) IN
            \E saved \in PillowOutcomes(image) :
                IF saved
                THEN /\ fs' = WriteFile(fs, temp_resized,
                                        FileOf("resize", est_current_path.base, 0, OrigSize))
                     /\ est_current_path' = temp_resized
                     /\ est_temp_files' = Append(est_temp_files, temp_resized)
                     /\ est_steps' = Append(est_steps,
                                            Step("resize", est_current_path, temp_resized))
                     /\ est_pc' = "convert"
                ELSE /\ est_pc' = "unexpected"
                     /\ UNCHANGED <<fs, est_current_path, est_temp_files, est_steps>>
       ELSE /\ est_pc' = "convert"
            /\ UNCHANGED <<fs, est_current_path, est_temp_files, est_steps>>
    /\ UNCHANGED <<env, logged, warned, log_raised, posts, est_quality,
                   est_target_format, est_bound, est_temp_out_name, est_is_success,
                   est_msg>>
    /\ EstOutside

\* Lines 377-380, with _convert_image (168-178).
EstConvert ==
    /\ est_pc = "convert"
    /\ IF ConversionNeeded(est_current_path, est_target_format)
       THEN LET temp_converted == TempPath("converted_uuid", est_target_format) IN
            \E saved \in PillowOutcomes(image) :
                IF saved /\ est_target_format \in {"jpeg", "jpg", "png", "webp", "ico"}
                THEN /\ fs' = WriteFile(fs, temp_converted,
                                FileOf("convert", est_current_path.base,
                                       IF est_target_format \in {"jpeg", "jpg"}
                                       THEN BridgeQuality ELSE 0, OrigSize))
                     /\ est_current_path' = temp_converted
                     /\ est_temp_files' = Append(est_temp_files, temp_converted)
                     /\ est_steps' = Append(est_steps,
                                            Step("convert", est_current_path, temp_converted))
                     /\ est_pc' = "mktemp"
                ELSE /\ est_pc' = "unexpected"
                     /\ UNCHANGED <<fs, est_current_path, est_temp_files, est_steps>>
       ELSE /\ est_pc' = "mktemp"
            /\ UNCHANGED <<fs, est_current_path, est_temp_files, est_steps>>
    /\ UNCHANGED <<env, logged, warned, log_raised, posts, est_quality,
                   est_target_format, est_bound, est_temp_out_name, est_is_success,
                   est_msg>>
    /\ EstOutside

\* Lines 382-384: the output file is created after the staging, or
\* NamedTemporaryFile raises.
EstMakeTempOut ==
    /\ est_pc = "mktemp"
    /\ \E created \in BOOLEAN :
        IF created
        THEN /\ fs' = WriteFile(fs, TempPath("tmpout", "tmp"), EmptyFile)
             /\ est_temp_out_name' = TempPath("tmpout", "tmp")
             /\ est_temp_files' = Append(est_temp_files, TempPath("tmpout", "tmp"))
             /\ est_is_success' = FALSE
             /\ est_msg' = Msg("", "", 0)
             /\ est_pc' = "encode"
        ELSE /\ est_pc' = "unexpected"
             /\ UNCHANGED <<fs, est_temp_out_name, est_temp_files, est_is_success,
                            est_msg>>
    /\ UNCHANGED <<env, logged, warned, log_raised, posts, est_quality,
                   est_target_format, est_current_path, est_bound, est_steps>>
    /\ EstOutside

\* What one call of an encoder did: the files after it, its result or the
\* exception it ended in, its tool runs, its log entries and warnings, and
\* what it observed of the tools.
Run(files, res, raised, steps, logs, warns, inst, tenv) ==
    [fs |-> files, res |-> res, raised |-> raised, steps |-> steps, logs |-> logs,
     warns |-> warns, installed |-> inst, toolEnv |-> tenv]

\* compress_jpeg / compress_webp, lines 111-118: every way one call can go.
compress_with(tool, files, in_path, out_path, q) ==
    UNION { { Run(IF EncoderWrote(v, o)
                  THEN WriteFile(files, out_path,
                                 FileOf(tool, in_path.base, q, EncSize(profile, q)))
                  ELSE files,
                  compress_encoder(tool, v, o), FALSE,
                  IF v = "no" THEN <<>> ELSE <<Call(tool, in_path, out_path, q, q, o)>>,
                  EncoderLogs(tool, v, o), EncoderWarns(v),
                  Observed(installed, tool, v),
                  IF v = "no" THEN toolEnv ELSE Observed(toolEnv, tool, o))
              : o \in (IF v = "no" THEN {Unknown} ELSE OutcomeChoices(tool)) }
            : v \in PresenceChoices(tool) }

\* Lines 157-158: compress_png's finally clause, on every way out.
PngEnd(files, res, raised, steps, logs, warns, inst, tenv, quant_path, use_zopfli) ==
    Run(IF use_zopfli /\ Exists(files, quant_path) THEN RemoveFile(files, quant_path)
        ELSE files,
        res, raised, steps, logs, warns, inst, tenv)

\* Lines 146-149 and 152-155: get_tool_path again, then the further-compression
\* tool from src into out_path.
ZopfliRuns(files, src, out_path, steps, logs, inst, tenv, quant_path) ==
    UNION { { IF v = "no"
              THEN PngEnd(files, Result(FALSE, Msg("not found.", ZOPFLIPNG, 0)), FALSE,
                          steps, logs + 1, 1, inst, tenv, quant_path, TRUE)
              ELSE PngEnd(IF o = Exited(0)
                          THEN WriteFile(files, out_path,
                                         FileOf(ZOPFLIPNG, src.base, 0, OrigSize \div 4))
                          ELSE files,
                          RunTool(ZOPFLIPNG, o), FALSE,
                          Append(steps, Call(ZOPFLIPNG, src, out_path, 0, 0, o)),
                          logs + RunToolLogs(ZOPFLIPNG, o), 0, inst,
                          Observed(tenv, ZOPFLIPNG, o), quant_path, TRUE)
              : o \in (IF v = "no" THEN {Unknown} ELSE ZopfliChoices(files, src)) }
            : v \in (IF env_free THEN {"yes", "no"} ELSE {"yes"}) }

\* Lines 143-150 without further compression: the input is copied to out_path.
AlreadyOptimizedCopies(files, in_path, out_path, quant_msg, steps, logs, inst, tenv) ==
    { CASE c = "ok" ->
             Run(WriteFile(files, out_path, files[in_path]),
                 AlreadyOptimizedCopyResult(quant_msg), FALSE, steps, logs, 0, inst, tenv)
        [] c = "fail_clean" ->
             Run(files, NoResult, TRUE, steps, logs, 0, inst, tenv)
        [] c = "fail_dirty" ->
             Run(WriteFile(files, out_path, PartialFile(in_path.base)), NoResult, TRUE,
                 steps, logs, 0, inst, tenv)
      : c \in CopyOutcomes }

\* After the quantizer ran with outcome o (lines 141-156).
AfterQuantizer(files, in_path, out_path, q, use_zopfli, o, inst) ==
    LET quant_path == QuantPath(out_path, use_zopfli)
        r == RunTool(PNGQUANT, o)
        f1 == IF o = Exited(0)
              THEN WriteFile(files, quant_path,
                             FileOf(PNGQUANT, in_path.base, q, OrigSize \div 2))
              ELSE files
        steps == <<Call(PNGQUANT, in_path, quant_path, QualityRangeLow(q), q, o)>>
        logs == RunToolLogs(PNGQUANT, o)
        tenv == Observed(toolEnv, PNGQUANT, o)
    IN IF ~r.ok
       THEN {PngEnd(f1, r, FALSE, steps, logs, 0, inst, tenv, quant_path, use_zopfli)}
       ELSE IF r.msg.text = ALREADY_OPTIMIZED
       THEN IF ~use_zopfli
            THEN AlreadyOptimizedCopies(f1, in_path, out_path, r.msg, steps, logs, inst,
                                        tenv)
            ELSE ZopfliRuns(f1, AlreadyOptimizedSource(in_path, quant_path), out_path,
                            steps, logs, inst, tenv, quant_path)
       ELSE IF use_zopfli
       THEN ZopfliRuns(f1, quant_path, out_path, steps, logs, inst, tenv, quant_path)
       ELSE {PngEnd(f1, Result(TRUE, Msg(SUCCESS, "", 0)), FALSE, steps, logs, 0, inst,
                    tenv, quant_path, use_zopfli)}

\* compress_png, lines 135-158: every way one call can go.
compress_png(files, in_path, out_path, q, use_zopfli) ==
    UNION { LET missing == (IF vq = "no" THEN 1 ELSE 0) + (IF vz = "no" THEN 1 ELSE 0)
                inst == Observed(Observed(installed, PNGQUANT, vq), ZOPFLIPNG, vz)
            IN IF missing > 0
               THEN {Run(files, Result(FALSE, Msg("PNG tools not found.", "", 0)), FALSE,
                         <<>>, missing, missing, inst, toolEnv)}
               ELSE UNION { AfterQuantizer(files, in_path, out_path, q, use_zopfli, o, inst)
                            : o \in OutcomeChoices(PNGQUANT) }
            : vq \in PresenceChoices(PNGQUANT), vz \in PresenceChoices(ZOPFLIPNG) }

\* Lines 389-390: Pillow writes the icon, or raises.
save_ico(files, in_path, out_path) ==
    { IF saved
      THEN Run(WriteFile(files, out_path, FileOf("ico", in_path.base, 0, OrigSize)),
               Result(TRUE, Msg("", "", 0)), FALSE, <<>>, 0, 0, installed, toolEnv)
      ELSE Run(files, NoResult, TRUE, <<>>, 0, 0, installed, toolEnv)
      : saved \in PillowOutcomes(image) }

\* Lines 385-390: the dispatch on the target format; no branch for any other.
EstEncodeRuns(fmt, files, in_path, out_path, q, use_zopfli) ==
    CASE fmt \in {"jpg", "jpeg"} -> compress_with(CJPEG, files, in_path, out_path, q)
      [] fmt = "png" -> compress_png(files, in_path, out_path, q, use_zopfli)
      [] fmt = "webp" -> compress_with(CWEBP, files, in_path, out_path, q)
      [] fmt = "ico" -> save_ico(files, in_path, out_path)
      [] OTHER -> {Run(files, NoResult, FALSE, <<>>, 0, 0, installed, toolEnv)}

\* Lines 384-390.  A log_error call that raises inside the encoder ends it
\* like any other exception.
EstEncode ==
    /\ est_pc = "encode"
    /\ \E run \in EstEncodeRuns(est_target_format, fs, est_current_path,
                                est_temp_out_name, est_quality, options.max_png) :
        /\ fs' = run.fs
        /\ installed' = run.installed
        /\ toolEnv' = run.toolEnv
        /\ est_steps' = est_steps \o run.steps
        /\ IF run.raised \/ LogFails(run.logs)
           THEN /\ log_raised' = (log_raised \/ LogFails(run.logs))
                /\ est_pc' = "unexpected"
                /\ UNCHANGED <<logged, warned, est_is_success, est_msg>>
           ELSE /\ est_is_success' = run.res.ok
                /\ est_msg' = run.res.msg
                /\ logged' = logged + run.logs
                /\ warned' = warned + run.warns
                /\ est_pc' = "post"
                /\ UNCHANGED log_raised
    /\ UNCHANGED <<posts, est_quality, est_target_format, est_current_path,
                   est_temp_files, est_bound, est_temp_out_name>>
    /\ EstOutside

\* A posted result: the size in bytes, or -1.
Post(size) == [of |-> 1, size |-> size]

\* Lines 392-395: the size of the staged input after "Already Optimized", of
\* the encoder's output otherwise, or -1 when the encoder failed.
EstPost ==
    /\ est_pc = "post"
    /\ LET measured == IF est_msg.text = ALREADY_OPTIMIZED THEN est_current_path
                       ELSE est_temp_out_name
       IN IF est_is_success
          THEN IF Exists(fs, measured)
               THEN /\ posts' = Append(posts, Post(fs[measured].size))
                    /\ est_pc' = "finally"
               ELSE /\ est_pc' = "unexpected"
                    /\ UNCHANGED posts
          ELSE /\ posts' = Append(posts, Post(-1))
               /\ est_pc' = "finally"
    /\ UNCHANGED <<fs, env, logged, warned, log_raised, est_quality, est_target_format,
                   est_current_path, est_temp_files, est_bound, est_temp_out_name,
                   est_is_success, est_msg, est_steps>>
    /\ EstOutside

\* Line 396: the handler of IndexError and ValueError.
EstExpected ==
    /\ est_pc = "expected"
    /\ posts' = Append(posts, Post(-1))
    /\ est_pc' = "finally"
    /\ UNCHANGED <<fs, env, logged, warned, log_raised, est_quality, est_target_format,
                   est_current_path, est_temp_files, est_bound, est_temp_out_name,
                   est_is_success, est_msg, est_steps>>
    /\ EstOutside

\* Line 397: the handler of every other exception.
EstExcept ==
    /\ est_pc = "unexpected"
    /\ IF LogFails(1)
       THEN /\ log_raised' = TRUE
            /\ est_pc' = "finally_raise"
            /\ UNCHANGED <<logged, posts>>
       ELSE /\ logged' = logged + 1
            /\ posts' = Append(posts, Post(-1))
            /\ est_pc' = "finally"
            /\ UNCHANGED log_raised
    /\ UNCHANGED <<fs, env, warned, est_quality, est_target_format, est_current_path,
                   est_temp_files, est_bound, est_temp_out_name, est_is_success,
                   est_msg, est_steps>>
    /\ EstOutside

\* Lines 398-400.  temp_files is a local of the thread's function, bound at
\* line 369: the loop over it raises UnboundLocalError when the try block
\* failed before that line.  os.remove may raise as well; either exception
\* ends the thread.
EstFinally ==
    /\ est_pc \in {"finally", "finally_raise"}
    /\ IF ~est_bound
       THEN est_pc' = "raised" /\ UNCHANGED fs
       ELSE \E removed \in (IF Removable(fs, est_temp_files) = {} THEN {TRUE}
                            ELSE BOOLEAN) :
              IF removed
              THEN /\ fs' = RemoveAll(fs, est_temp_files)
                   /\ est_pc' = IF est_pc = "finally" THEN "done" ELSE "raised"
              ELSE est_pc' = "raised" /\ UNCHANGED fs
    /\ UNCHANGED <<env, logged, warned, log_raised, posts, est_quality,
                   est_target_format, est_current_path, est_temp_files, est_bound,
                   est_temp_out_name, est_is_success, est_msg, est_steps>>
    /\ EstOutside

\* The form's settings in quality mode, as the thread reads them: the
\* auto-conversion box is cleared for inputs that are not PNG (line 329) and
\* the maximum-compression box is read for a PNG target only.
EstOptionSets(ext, img) ==
    { o \in { OptionsOf(FALSE, fmt, auto, rz, "quality", q, DefaultTargetSize, mp,
                        "-tiny", ORIGINAL_FOLDER) :
                fmt \in Formats, auto \in BOOLEAN, rz \in Resizes, q \in EstQualities,
                mp \in BOOLEAN } :
        /\ ext # "png" => ~o.auto_convert_png
        /\ EstimateTargetFormat(Path(InputDir, "", ext), o, img) # "png" => ~o.max_png }

\* start_estimation_thread has just started the thread for the selected file.
InitEstimate ==
    /\ \E n \in Names, e \in Exts : file_path = Path(InputDir, n, e)
    /\ image \in (IF file_path.ext = "png" THEN PngImages ELSE {PlainImage})
    /\ options \in EstOptionSets(file_path.ext, image)
    /\ profile = LinearProfile
    /\ env_free = FALSE
    /\ log_ok = TRUE
    /\ fs = (file_path :> Original)
    /\ pc = "idle"
    /\ installed = [t \in Tools |-> "unknown"]
    /\ toolEnv = [t \in Tools |-> Unknown]
    /\ target_format = ""
    /\ final_output_path = NoPath
    /\ temp_output_path = NoPath
    /\ current_path = NoPath
    /\ temp_files = <<>>
    /\ quality = 0
    /\ InitLocals
    /\ NoBatch
    /\ after_id = 0
    /\ timers = {}
    /\ now = 0
    /\ comp_mode = "quality"
    /\ selected = TRUE
    /\ requests = <<>>
    /\ workers = {}
    /\ started = <<>>
    /\ posts = <<>>
    /\ displayed = Shown("...", 0)
    /\ est_pc = "read"
    /\ est_quality = 0
    /\ est_target_format = ""
    /\ est_current_path = NoPath
    /\ est_temp_files = <<>>
    /\ est_bound = FALSE
    /\ est_temp_out_name = NoPath
    /\ est_is_success = FALSE
    /\ est_msg = Msg("", "", 0)
    /\ est_steps = <<>>

NextEstimate ==
    \/ EstRead
    \/ EstDeriveTarget
    \/ EstSafeCopy
    \/ EstResize
    \/ EstConvert
    \/ EstMakeTempOut
    \/ EstEncode
    \/ EstPost
    \/ EstExpected
    \/ EstExcept
    \/ EstFinally

SpecEstimate == InitEstimate /\ [][NextEstimate]_vars

(***************************************************************************)
(* Vocabulary of the claims.                                               *)
(***************************************************************************)
Returned == pc = "done"
Ended == pc \in {"done", "raised"}
TempFilesLeft == {p \in DOMAIN fs : p.dir = "tmp"}
InputUnchanged == file_path \in DOMAIN fs /\ fs[file_path] = Original
RanOf(tool) == {i \in 1..Len(calls) : calls[i].tool = tool}
Monotone(p) == \A q \in 1..99 : EncSize(p, q) <= EncSize(p, q + 1)
Fitting(p, target_kb) == {q \in 1..100 : EncSize(p, q) <= target_kb * 1024}
SearchReturned == pc = "encode_final"

(***************************************************************************)
(* C1.  When process_file returns (or raises), no temporary file the call  *)
(* created is left: the temp output file, the safe-path copy, the resized  *)
(* and converted files, the quantizer intermediate and every probe file    *)
(* are absent, whatever succeeded or failed, also in the PNG "Already      *)
(* Optimized" outcome where nothing is moved.                              *)
(***************************************************************************)
C1_NoTempFileLeft == Ended => TempFilesLeft = {}

(***************************************************************************)
(* C2.  Whenever process_file returns failure, the file at the input path  *)
(* still exists and holds its original bytes, in overwrite mode as well as *)
(* in suffix mode.                                                         *)
(***************************************************************************)
C2_FailureKeepsOriginal == (Returned /\ ~ret.ok) => InputUnchanged

(***************************************************************************)
(* C3.  With overwrite=true and a target format that differs from the      *)
(* input's format (an explicit conversion, or the auto-conversion of a     *)
(* fully opaque PNG), process_file returns failure with the overwrite /    *)
(* format conflict message; no temporary file is created, no staging or    *)
(* encoder step runs, and the original's bytes are unchanged.              *)
(***************************************************************************)
\* jpg and jpeg name one format.
FormatOf(ext) == IF ext = "jpg" THEN "jpeg" ELSE ext
OpaqueByDefinition(img) ==
    /\ img.readable
    /\ \A sample \in img.alpha : sample = 255
    /\ ~(img.mode = "P" /\ img.transparency)
RequestedFormat ==
    CASE options.format = "JPEG" -> "jpeg"
      [] options.format = "PNG" -> "png"
      [] options.format = "WEBP" -> "webp"
      [] options.format = "ICO" -> "ico"
      [] OTHER -> IF file_path.ext = "png" /\ options.auto_convert_png
                     /\ OpaqueByDefinition(image)
                  THEN "jpeg" ELSE FormatOf(file_path.ext)
FormatChanges == RequestedFormat # FormatOf(file_path.ext)

C3_OverwriteConflictFailsFirst ==
    (options.overwrite /\ FormatChanges /\ pc # "start")
    => /\ Returned
       /\ ret = Result(FALSE, Msg("Cannot overwrite file when changing its format.", "", 0))
       /\ fs = (file_path :> Original)
       /\ temp_files = <<>>
       /\ calls = <<>> /\ probed = <<>>

C3_Witness ==
    /\ Returned /\ options.overwrite /\ options.format = "Keep Original"
    /\ file_path.ext = "png" /\ image.alpha = {255}
    /\ ~ret.ok
    /\ ret.msg.text = "Cannot overwrite file when changing its format."

(***************************************************************************)
(* C4.  Size-targeted mode with a JPEG or WEBP target and an encoder that  *)
(* is present, never fails and whose output size does not decrease as      *)
(* quality rises: if some quality in 1..100 fits target_size * 1024 bytes, *)
(* the file placed at the final output path is at most that large; if no   *)
(* quality fits, the encode at quality 1 succeeds and is what is placed at *)
(* the final output path, the call returning success unless the final move *)
(* itself raised.                                                          *)
(***************************************************************************)
SizeTargeted ==
    /\ options.mode = "size"
    /\ target_format \in {"jpeg", "jpg", "webp"}
EncoderOfTarget == IF target_format = "webp" THEN "cwebp.exe" ELSE "cjpeg.exe"
EncoderWorked ==
    /\ installed[EncoderOfTarget] = "yes"
    /\ toolEnv[EncoderOfTarget] = Exited(0)
C4_Case == Returned /\ SizeTargeted /\ EncoderWorked /\ Monotone(profile)

C4_SizeTargetMet ==
    C4_Case =>
       IF Fitting(profile, options.target_size) # {}
       THEN ret.ok => /\ final_output_path \in DOMAIN fs
                      /\ fs[final_output_path].size <= options.target_size * 1024
       ELSE /\ is_success
            /\ quality = 1
            /\ ret.ok => /\ final_output_path \in DOMAIN fs
                          /\ fs[final_output_path].by = EncoderOfTarget
                          /\ fs[final_output_path].q = 1
            /\ ~ret.ok => ret.msg.text = "An unexpected error occurred"

C4_Witness ==
    /\ C4_Case /\ ret.ok
    /\ Fitting(profile, options.target_size) = 1..25
    /\ fs[final_output_path].q = 25
    /\ fs[final_output_path].size = 1000

(***************************************************************************)
(* C5.  For every target budget and every encoder that never fails and     *)
(* whose output size does not decrease as quality rises, find_best_quality *)
(* returns the largest quality in 1..100 whose encoded size is at most     *)
(* target_kb * 1024 bytes, whenever there is one.                          *)
(***************************************************************************)

C5_ReturnsLargestFitting ==
    (SearchReturned /\ ~env_free /\ Monotone(profile)
        /\ Fitting(profile, options.target_size) # {})
    => /\ quality \in Fitting(profile, options.target_size)
       /\ \A q \in Fitting(profile, options.target_size) : q <= quality

C5_Witness ==
    /\ SearchReturned /\ ~env_free /\ Monotone(profile)
    /\ Fitting(profile, options.target_size) = 1..37
    /\ quality = 37
    /\ Len(probed) = 6

(***************************************************************************)
(* C6.  Whatever the probes' outcomes (fits, oversized, encoder failure),  *)
(* find_best_quality invokes the encoder at most 8 times and returns an    *)
(* integer in 1..100; when no probe's output fits the budget (also when    *)
(* every probe fails) it returns 1.                                        *)
(***************************************************************************)
ProbeFitted(i) == probed[i].ok /\ probed[i].size <= options.target_size * 1024
NoProbeFitted == \A i \in 1..Len(probed) : ~ProbeFitted(i)

C6_BoundedProbesAndRange ==
    /\ Len(probed) <= 8
    /\ SearchReturned =>
         /\ quality \in 1..100
         /\ NoProbeFitted => quality = 1

C6_Witness ==
    /\ SearchReturned /\ env_free
    /\ NoProbeFitted
    /\ \E i \in 1..Len(probed) : ~probed[i].ok
    /\ \E i \in 1..Len(probed) : probed[i].ok
    /\ quality = 1

(***************************************************************************)
(* C7.  compress_png with the maximum-compression pass: after "Already     *)
(* Optimized" the further-compression tool is run on the original input    *)
(* path (not on the quantizer's intermediate path), after an ordinary      *)
(* quantizer success on the quantizer's intermediate file; in both cases   *)
(* it writes to the output path, where an output exists when it succeeds.  *)
(***************************************************************************)
QuantizerSaid(text) == quant.ok /\ quant.msg.text = text

C7_FurtherPassSource ==
    \A i \in RanOf("zopflipng.exe") :
        /\ calls[i].dst = temp_output_path
        /\ QuantizerSaid("Already Optimized") =>
              /\ calls[i].src = current_path
              /\ \A j \in RanOf("pngquant.exe") : calls[i].src # calls[j].dst
        /\ QuantizerSaid("Success") =>
              /\ \E j \in RanOf("pngquant.exe") : calls[i].src = calls[j].dst
              /\ calls[i].src # current_path
        /\ (calls[i].res.ok /\ pc = "png_finally") =>
              /\ temp_output_path \in DOMAIN fs
              /\ fs[temp_output_path].by = "zopflipng.exe"

C7_Witness ==
    /\ pc = "png_finally" /\ options.max_png
    /\ QuantizerSaid("Already Optimized")
    /\ \E i \in RanOf("zopflipng.exe") : calls[i].res.ok /\ calls[i].src = current_path
    /\ fs[temp_output_path].by = "zopflipng.exe"

(***************************************************************************)
(* C8.  As claimed: whenever the quantizer reported "Already Optimized"    *)
(* and compress_png returns success, the message it returns is "Already    *)
(* Optimized", in the branch that copies the original and in the branch    *)
(* that runs the further-compression pass.                                 *)
(***************************************************************************)
PngReturnedSuccess == pc = "png_finally" /\ ~exc /\ result.ok

C8_AlreadyOptimizedPropagates ==
    (PngReturnedSuccess /\ QuantizerSaid("Already Optimized"))
    => result.msg.text = "Already Optimized"

(***************************************************************************)
(* C8, amended.  Whenever the quantizer reported "Already Optimized" and   *)
(* compress_png returns success: in the branch that copies the original to *)
(* the output path the message is "Already Optimized"; in the branch that  *)
(* runs the further-compression pass the message is that tool's "Success". *)
(***************************************************************************)
C8_AlreadyOptimizedOnlyOnCopy ==
    (PngReturnedSuccess /\ QuantizerSaid("Already Optimized"))
    => /\ ~options.max_png => result.msg.text = "Already Optimized"
       /\ options.max_png => result.msg.text = "Success"

C8_Witness ==
    /\ PngReturnedSuccess /\ QuantizerSaid("Already Optimized")
    /\ ~options.max_png
    /\ fs[temp_output_path] = Original

(***************************************************************************)
(* C9.  For a .png input with auto_convert_png and no explicit target      *)
(* format, the target is JPEG (extension of the output file, reported      *)
(* format) iff the PNG decodes and is fully opaque: every alpha sample is  *)
(* maximal and there is no palette transparency entry; otherwise the       *)
(* target stays PNG.  An explicit target format is used whatever the       *)
(* opacity.                                                                *)
(***************************************************************************)
AutoCase ==
    /\ file_path.ext = "png" /\ options.auto_convert_png
    /\ options.format = "Keep Original"

C9_OpaquePngTargetsJpeg ==
    pc # "start" =>
      /\ AutoCase =>
           /\ target_format = "jpeg" <=> OpaqueByDefinition(image)
           /\ ~OpaqueByDefinition(image) => target_format = "png"
           /\ (Returned /\ ret.ok /\ OpaqueByDefinition(image)) =>
                 /\ final_output_path.ext = "jpeg"
                 /\ final_output_path \in DOMAIN fs
                 /\ ret.msg.text = "-> JPEG, quality"
           /\ (Returned /\ ret.ok /\ ~OpaqueByDefinition(image)) =>
                 final_output_path.ext = "png"
      /\ options.format # "Keep Original" => target_format = RequestedFormat

C9_Witness ==
    /\ Returned /\ ret.ok /\ AutoCase
    /\ image.mode = "RGBA" /\ image.alpha = {255}
    /\ final_output_path.ext = "jpeg"
    /\ fs[final_output_path].by = "cjpeg.exe"

(***************************************************************************)
(* C10, as claimed.  _run_tool classifies every run and returns a result   *)
(* for each: exit code 0 gives (success, "Success"); 98 or 99 gives        *)
(* (success, "Already Optimized") only when the tool is the PNG quantizer; *)
(* every other non-zero exit code, and 98 or 99 from any other tool, gives *)
(* failure with the exit code in the message; an executable that cannot be *)
(* launched gives (failure, "Tool not found ...").                         *)
(***************************************************************************)
ExitsClassified(c) ==
    LET quantizerDone == c.tool = "pngquant.exe" /\ c.out.rc \in {98, 99} IN
    /\ (c.out.kind = "exit" /\ c.out.rc = 0) =>
          c.res = Result(TRUE, Msg("Success", "", 0))
    /\ (c.out.kind = "exit" /\ quantizerDone) =>
          c.res = Result(TRUE, Msg("Already Optimized", "", 0))
    /\ (c.out.kind = "exit" /\ c.out.rc # 0 /\ ~quantizerDone) =>
          /\ ~c.res.ok
          /\ c.res.msg.text = "Error from" /\ c.res.msg.code = c.out.rc
    /\ c.res.msg.text = "Already Optimized" => (c.out.kind = "exit" /\ quantizerDone)

C10_LaunchFailureIsToolNotFound ==
    \A i \in 1..Len(calls) :
        /\ ExitsClassified(calls[i])
        /\ calls[i].out.kind # "exit" =>
              /\ ~calls[i].res.ok
              /\ calls[i].res.msg.text = "Tool not found"

(***************************************************************************)
(* C10, amended.  As above, except for the launch: an executable that is   *)
(* not found (FileNotFoundError) gives (failure, "Tool not found ..."),    *)
(* and any other error raised by the launch gives (failure, the error's    *)
(* own text).                                                              *)
(***************************************************************************)
C10_RunToolClassifies ==
    \A i \in 1..Len(calls) :
        /\ ExitsClassified(calls[i])
        /\ calls[i].out.kind = "FileNotFoundError" =>
              /\ ~calls[i].res.ok
              /\ calls[i].res.msg.text = "Tool not found"
              /\ calls[i].res.msg.tool = calls[i].tool
        /\ calls[i].out.kind = "Exception" =>
              /\ ~calls[i].res.ok
              /\ calls[i].res.msg.text = "str(e)"

C10_Witness ==
    \E i \in 1..Len(calls) :
        /\ calls[i].tool = "zopflipng.exe"
        /\ calls[i].out = Exited(99)
        /\ ~calls[i].res.ok /\ calls[i].res.msg.code = 99

(***************************************************************************)
(* C11.  process_file always returns a (success flag, message) pair and    *)
(* never raises to its caller, whichever step raises an unexpected error:  *)
(* target-format derivation, output-path computation and temp-output       *)
(* creation, staging, encoding, the final move, or cleanup.                *)
(***************************************************************************)
Raised == pc = "raised"

C11_NeverRaises == ~Raised

(***************************************************************************)
(* C12.  In a batch of n files (start_compression and the headless loop of *)
(* main), process_file is invoked exactly once for every file, in list     *)
(* order, whatever the outcomes of earlier files; each outcome is appended *)
(* to exactly one of the two accumulators, so at the end successes +       *)
(* failures = n, and one aggregate report is issued after the last file.   *)
(***************************************************************************)
BatchEnded == batch_pc \in {"finished", "aborted"}
InListOrder ==
    /\ Len(invoked) <= Len(files_to_process)
    /\ \A i \in 1..Len(invoked) : invoked[i] = files_to_process[i]
Accumulated == Len(success_msgs) + Len(error_msgs)

C12_BatchProcessesEveryFile ==
    /\ InListOrder
    /\ batch_pc = "loop" => Accumulated = Len(invoked)
    /\ reports # <<>> => batch_pc = "finished"
    /\ BatchEnded =>
          /\ invoked = files_to_process
          /\ Accumulated = Len(files_to_process)
          /\ Len(reports) = 1
          /\ reports[1].successes = Len(success_msgs)
          /\ reports[1].failures = Len(error_msgs)

\* The same, for the batches in which no process_file call raised.
BatchWithoutRaise ==
    /\ InListOrder
    /\ batch_pc = "loop" => Accumulated = Len(invoked)
    /\ reports # <<>> => batch_pc = "finished"
    /\ batch_pc = "finished" =>
          /\ invoked = files_to_process
          /\ Accumulated = Len(files_to_process)
          /\ Len(reports) = 1
          /\ reports[1].successes = Len(success_msgs)
          /\ reports[1].failures = Len(error_msgs)

(***************************************************************************)
(* C13.  When the derived target format is none of jpeg/jpg, png, webp,    *)
(* ico, process_file returns failure with the "Unsupported file type"      *)
(* message, invokes no encoder tool, and has staged nothing: no temporary  *)
(* file is created and no safe-copy, resize or format-conversion step runs *)
(* before the rejection.                                                   *)
(***************************************************************************)
SupportedFormats == {"jpeg", "jpg", "png", "webp", "ico"}
UnsupportedTarget == TargetFormat(file_path, options, image) \notin SupportedFormats

C13_UnsupportedRejectedUnstaged ==
    UnsupportedTarget =>
        /\ TempFilesLeft = {}
        /\ temp_files = <<>>
        /\ calls = <<>> /\ probed = <<>>
        /\ \A t \in Tools : installed[t] = "unknown"
        /\ Ended => (Returned /\ ret = Result(FALSE, Msg(UNSUPPORTED_TYPE, "", 0)))

(***************************************************************************)
(* C14.  At most one estimation worker is executing at any time: for any   *)
(* sequence of option-change events and timer firings, a new estimation    *)
(* run is never started while a previously started estimation run for the  *)
(* same selection is still running.                                        *)
(***************************************************************************)
C14_OneEstimationAtATime ==
    /\ Cardinality(workers) <= 1
    /\ \A k \in 1..Len(started) : started[k].running = {}

(***************************************************************************)
(* C15.  A new estimation request cancels an earlier request that is       *)
(* scheduled but not yet started: after any sequence of on_quality_change  *)
(* events at most one estimation timer is pending, and the requests        *)
(* arriving within one debounce interval start at most one estimation run. *)
(***************************************************************************)
RequestOf(k) == requests[started[k].id]

C15_NewRequestCancelsPending ==
    /\ Cardinality(timers) <= 1
    /\ \A t \in timers : t.id = after_id
    /\ \A a, b \in 1..Len(started) :
          a < b => RequestOf(b).at - RequestOf(a).at >= DebounceMs

C15_Witness ==
    /\ Len(requests) = 3
    /\ requests[3].at - requests[1].at < DebounceMs
    /\ \A i \in 1..3 : requests[i].id = i
    /\ Len(started) = 1
    /\ started[1].id = 3
    /\ timers = {}

(***************************************************************************)
(* C16.  Whenever process_file returns success with a result that is not   *)
(* the "already optimized" outcome, the encoder's output has been moved to *)
(* the computed final output path: a file exists there and the temp output *)
(* path no longer exists.  The move is attempted only when the encode      *)
(* succeeded and the temp output path was actually written.  (An encoder   *)
(* that exits with code 0 is taken to have written its output file.)       *)
(***************************************************************************)
AlreadyOptimizedOutcome == ret.msg.text = "is already optimized."
Encoders == {"cjpeg.exe", "cwebp.exe", "pngquant.exe", "zopflipng.exe", "ico"}
\* A step of the promotion in which shutil.move was called.
MoveAttempted ==
    pc = "finalize" /\ (fs' # fs \/ pc' = "except")

C16_SuccessMovesOutput ==
    /\ [](Returned /\ ret.ok /\ ~AlreadyOptimizedOutcome
            => /\ final_output_path \in DOMAIN fs
               /\ fs[final_output_path].by \in Encoders
               /\ temp_output_path \notin DOMAIN fs)
    /\ [][MoveAttempted
            => /\ is_success
               /\ temp_output_path \in DOMAIN fs
               /\ fs[temp_output_path].by \in Encoders]_vars

C16_Witness ==
    /\ Returned /\ ret.ok /\ ret.msg.text = "compressed to PNG."
    /\ ~options.overwrite /\ options.max_png
    /\ final_output_path = Path("out", "img-tiny", "png")
    /\ fs[final_output_path].by = "zopflipng.exe"
    /\ TempFilesLeft = {}

(***************************************************************************)
(* C17.  When the PNG quantizer reports "Already Optimized" and the        *)
(* maximum-compression pass is not requested, then after process_file      *)
(* returns success with overwrite=false the original input bytes are       *)
(* present, verbatim, at the computed final output path (directory +       *)
(* basename + suffix + target format).                                     *)
(***************************************************************************)
ComputedFinalPath ==
    Path(IF options.output_dir = "Original Folder" THEN file_path.dir
         ELSE options.output_dir,
         file_path.base \o options.suffix, "png")

C17_AlreadyOptimizedCopyAtFinalPath ==
    (Returned /\ ret.ok /\ ~options.overwrite /\ ~options.max_png
        /\ QuantizerSaid("Already Optimized"))
    => /\ ComputedFinalPath \in DOMAIN fs
       /\ fs[ComputedFinalPath] = Original

(***************************************************************************)
(* C18.  Encoder dispatch in process_file: in size-targeted mode with a    *)
(* JPEG or WEBP target, find_best_quality runs first and then the encoder  *)
(* is invoked exactly once more, on the temp output path, at exactly the   *)
(* quality the search returned; with a PNG target the search is never      *)
(* invoked in either mode and the configured quality is used; with an ICO  *)
(* target no external tool and no search is invoked.                       *)
(***************************************************************************)
DerivedTarget == TargetFormat(file_path, options, image)
InSearch == pc \in {"fbq", "fbq_finally"}
\* The final encode of a JPEG or WEBP target has returned.
FinalEncodeReturned ==
    /\ pc \in {"finalize", "except", "finally", "done", "raised"}
    /\ message.text \notin {"", "An unknown compression error occurred."}
FittedProbes ==
    {i \in 1..Len(probed) :
        probed[i].ok /\ probed[i].size <= options.target_size * 1024}
\* What the search answered, read off its probes: the last one that fitted.
SearchAnswer ==
    IF FittedProbes = {} THEN 1
    ELSE probed[CHOOSE i \in FittedProbes : \A j \in FittedProbes : j <= i].q

C18_EncoderDispatch ==
    /\ (pc # "start" /\ SizeTargeted) =>
          /\ InSearch => calls = <<>>
          /\ FinalEncodeReturned =>
                /\ Len(probed) >= 1
                /\ Len(calls) <= 1
                /\ installed[EncoderOfTarget] = "yes" => Len(calls) = 1
                /\ \A i \in 1..Len(calls) :
                      /\ calls[i].tool = EncoderOfTarget
                      /\ calls[i].dst = temp_output_path
                      /\ calls[i].qhi = SearchAnswer
    /\ (pc # "start" /\ ~SizeTargeted) => (~InSearch /\ probed = <<>>)
    /\ DerivedTarget = "png" =>
          /\ ~InSearch /\ probed = <<>>
          /\ \A i \in RanOf("pngquant.exe") :
                /\ calls[i].qhi = options.quality
                /\ calls[i].qlo = IF options.quality > 10 THEN options.quality - 10 ELSE 0
          /\ \A i \in 1..Len(calls) : calls[i].tool \in {"pngquant.exe", "zopflipng.exe"}
    /\ DerivedTarget = "ico" =>
          /\ ~InSearch /\ probed = <<>>
          /\ calls = <<>>
          /\ \A t \in Tools : installed[t] = "unknown"

C18_Witness ==
    /\ Returned /\ ret.ok /\ SizeTargeted
    /\ Len(probed) = 6
    /\ Len(calls) = 1
    /\ calls[1].qhi = 25 /\ calls[1].dst = temp_output_path
    /\ ret.msg.code = 25

(***************************************************************************)
(* C19.  Staging in process_file runs in the fixed order safe-path copy,   *)
(* resize, format conversion, and runs a stage only when it is requested:  *)
(* the safe copy iff the input path has a non-ASCII character, the resize  *)
(* iff resize is enabled and width > 0 and height > 0, the conversion iff  *)
(* the current artifact's extension differs from the target format.  Each  *)
(* stage reads the previous stage's artifact, writes a new artifact, adds  *)
(* it to the tracked temp set, and deletes nothing.                        *)
(***************************************************************************)
StagingDone == pc = "encode"
InStaging == pc \in {"safe_copy", "resize", "convert", "encode"}
SafeCopyWanted == file_path.base = "im#"
ResizeWanted == options.resize_enabled /\ options.width > 0 /\ options.height > 0
SafeArtifact == Path("tmp", "temp_uuid", file_path.ext)
ResizedArtifact == Path("tmp", "resized_uuid", file_path.ext)
ConvertedArtifact == Path("tmp", "converted_uuid", target_format)
\* The artifact each stage starts from.
AfterSafeCopy == IF SafeCopyWanted THEN SafeArtifact ELSE file_path
AfterResize == IF ResizeWanted THEN ResizedArtifact ELSE AfterSafeCopy
ConversionWanted == AfterResize.ext # target_format
AfterConversion == IF ConversionWanted THEN ConvertedArtifact ELSE AfterResize
ExpectedTracked ==
    <<temp_output_path>>
    \o (IF SafeCopyWanted THEN <<SafeArtifact>> ELSE <<>>)
    \o (IF ResizeWanted THEN <<ResizedArtifact>> ELSE <<>>)
    \o (IF ConversionWanted THEN <<ConvertedArtifact>> ELSE <<>>)

C19_StagingOrderAndConditions ==
    /\ StagingDone =>
          /\ temp_files = ExpectedTracked
          /\ current_path = AfterConversion
          /\ SafeCopyWanted => fs[SafeArtifact] = Original
          /\ ResizeWanted => (fs[ResizedArtifact].by = "resize"
                               /\ fs[ResizedArtifact].src = AfterSafeCopy.base)
          /\ ConversionWanted => (fs[ConvertedArtifact].by = "convert"
                                   /\ fs[ConvertedArtifact].src = AfterResize.base)
          /\ DOMAIN fs = {file_path} \cup {temp_files[i] : i \in 1..Len(temp_files)}
    /\ InStaging =>
          /\ InputUnchanged
          /\ \A i \in 1..Len(temp_files) : temp_files[i] \in DOMAIN fs
          /\ calls = <<>>

C19_Witness ==
    /\ StagingDone
    /\ SafeCopyWanted /\ ResizeWanted /\ ConversionWanted
    /\ Len(temp_files) = 4
    /\ fs[ConvertedArtifact].src = "resized_uuid"
    /\ fs[ResizedArtifact].src = "temp_uuid"

(***************************************************************************)
(* C20.  With overwrite=false, process_file never writes to the input      *)
(* path: for every suffix (including the empty suffix), output directory   *)
(* and target format, the bytes at the input path are the same after the   *)
(* call as before it, on success as well as on failure.                    *)
(***************************************************************************)
C20_NoOverwriteKeepsInput == ~options.overwrite => InputUnchanged

(***************************************************************************)
(* C21.  process_file rejects a call with the overwrite/format conflict    *)
(* only when the target format really differs from the input's format:     *)
(* with overwrite=true and a target format equal to the input's own        *)
(* format, whether left as keep-original or explicitly selected, the call  *)
(* is not rejected as a conflict and proceeds to staging and encoding.     *)
(***************************************************************************)
RejectedAsConflict ==
    ret.msg.text = "Cannot overwrite file when changing its format."

C21_SameFormatNotRejected ==
    (options.overwrite /\ ~FormatChanges) =>
        /\ ~RejectedAsConflict
        /\ pc # "start" => temp_files # <<>> \/ pc \in {"mktemp", "raised"}

(***************************************************************************)
(* C22.  In one batch run with overwrite=false and one set of options, two *)
(* distinct input files never get the same final output path, so the       *)
(* output written for one file is never overwritten by the output of a     *)
(* later file of the same batch (for example inputs with the same base     *)
(* name and different extensions, with or without auto-conversion of       *)
(* opaque PNGs).                                                           *)
(***************************************************************************)
Placed(o) == o.ok /\ o.msg # "is already optimized."

C22_DistinctFinalPaths ==
    ~options.overwrite =>
        \A i, j \in 1..Len(outcomes) :
            (i < j /\ outcomes[i].file # outcomes[j].file
               /\ Placed(outcomes[i]) /\ Placed(outcomes[j]))
            => outcomes[i].path # outcomes[j].path

(***************************************************************************)
(* C23.  When an encoder binary is missing, the missing-tool condition is  *)
(* reported once (one warning and one log entry) within a process_file     *)
(* call, including a size-targeted call that probes the encoder several    *)
(* times, and the call fails for that file only.                           *)
(***************************************************************************)
MissingTools == {t \in Tools : installed[t] = "no"}

C23_MissingToolReportedOnce ==
    /\ warned <= Cardinality(MissingTools)
    /\ (Returned /\ MissingTools # {}) =>
          /\ ~ret.ok
          /\ warned = Cardinality(MissingTools)
          /\ logged >= warned

(***************************************************************************)
(* C24.  A failure of diagnostic logging (log initialisation or a log      *)
(* write raising an error) never aborts processing: process_file still     *)
(* returns its (success flag, message) pair for that file.                 *)
(***************************************************************************)
C24_LoggingFailureContained == log_raised => ~Raised

(***************************************************************************)
(* C27.  The 8-iteration cap of find_best_quality never cuts the search    *)
(* short: for every target and every sequence of probe outcomes the loop   *)
(* ends because low > high, after at most 7 probes, every probed quality   *)
(* lies in 1..100 and no quality is probed twice.                          *)
(***************************************************************************)
LoopEnded == pc = "fbq" /\ ~SearchContinues(iter, low, high)

C27_CapNeverCutsSearch ==
    /\ Len(probed) <= 7
    /\ \A i \in 1..Len(probed) : probed[i].q \in 1..100
    /\ \A i, j \in 1..Len(probed) : i # j => probed[i].q # probed[j].q
    /\ (LoopEnded \/ SearchReturned) => /\ low > high
                                        /\ iter = Len(probed)
                                        /\ iter < MaxProbes

C27_Witness ==
    /\ SearchReturned /\ env_free
    /\ Len(probed) = 7
    /\ low > high
    /\ \E i \in 1..Len(probed) : ~probed[i].ok
    /\ \E i \in 1..Len(probed) : ProbeFitted(i)

(***************************************************************************)
(* C26.  The result of an estimation request that has been superseded by a *)
(* newer request is discarded: once a newer estimation run has started, a  *)
(* late result of an older run never updates the displayed estimate, so    *)
(* after all estimation runs have finished the displayed estimate is that  *)
(* of the most recent run.                                                 *)
(***************************************************************************)
EstimationsFinished == workers = {} /\ posts = <<>> /\ timers = {} /\ started # <<>>
ShowsResult == displayed.text \in {"~KB", "Error"}

C26_StaleResultDiscarded ==
    (EstimationsFinished /\ ShowsResult) => displayed.of = started[Len(started)].id

(***************************************************************************)
(* C25.  For the same file and the same options in quality mode, the       *)
(* estimation thread performs the same pipeline as process_file: it        *)
(* derives the same target format (with the same precedence between the    *)
(* auto-conversion of opaque PNGs and an explicit target format), runs the *)
(* same staging steps in the same order, and invokes the same encoder with *)
(* the same quality; it differs only in not promoting its output.          *)
(***************************************************************************)
StagingNames == {"safe_copy", "resize", "convert"}
IsStaging(s) == s.tool \in StagingNames
IsToolRun(s) == s.tool \in Tools
EstStaging == SelectSeq(est_steps, IsStaging)
EstToolRuns == SelectSeq(est_steps, IsToolRun)
EstStagingDone == est_pc \in {"encode", "post"}
\* The staging process_file runs on this file with these options.
ProcessFileStaging ==
    (IF IsAscii(file_path) THEN <<>> ELSE <<"safe_copy">>)
    \o (IF ResizeRequested(options) THEN <<"resize">> ELSE <<>>)
    \o (IF ConversionNeeded(file_path, DerivedTarget) THEN <<"convert">> ELSE <<>>)
\* The tools process_file's dispatch runs for a target.
ProcessFileTools(fmt) ==
    IF fmt \in {"jpeg", "jpg", "webp"} THEN {EncoderTool(fmt)}
    ELSE IF fmt = "png" THEN {PNGQUANT, ZOPFLIPNG}
    ELSE {}

C25_EstimationSamePipeline ==
    /\ est_bound => est_target_format = DerivedTarget
    /\ EstStagingDone =>
          [i \in 1..Len(EstStaging) |-> EstStaging[i].tool] = ProcessFileStaging
    /\ \A i \in 1..Len(EstToolRuns) :
          /\ EstToolRuns[i].tool \in ProcessFileTools(DerivedTarget)
          /\ EstToolRuns[i].tool # ZOPFLIPNG =>
                /\ EstToolRuns[i].qhi = options.quality
                /\ EstToolRuns[i].qlo = IF EstToolRuns[i].tool = PNGQUANT
                                        THEN QualityRangeLow(options.quality)
                                        ELSE options.quality

(***************************************************************************)
(* C28.  Every estimation run posts exactly one result to the UI (a size   *)
(* or the error marker) and its finalizer completes without raising on     *)
(* every path, also when the run fails before any temporary file was       *)
(* created (no file selected, or a quality outside 1..100); every          *)
(* temporary file the run created is deleted when it ends.                 *)
(***************************************************************************)
EstEnded == est_pc \in {"done", "raised"}

C28_EstimationPostsOnceAndCleansUp ==
    /\ Len(posts) <= 1
    /\ est_pc # "raised"
    /\ EstEnded => /\ Len(posts) = 1
                   /\ TempFilesLeft = {}

====
